---- MODULE Spec2Model ----
(***************************************************************************)
(* State-machine model of the QR pipeline of the barcode library:          *)
(* GaloisField (qrcode/galoisfield.py), ReedSolomonEncoder                 *)
(* (qrcode/reedsolomon.py) and the segment encoder of                      *)
(* stripes/qrcode/qrcode.py.                                               *)
(*                                                                         *)
(* Python values are modelled as follows.  A list, tuple or bytes object   *)
(* is a sequence; Python index i is sequence index i + 1.  None and the    *)
(* exceptions a call can end in are negative sentinels, so that an         *)
(* operator returns either a value >= 0 (or a sequence) or the sentinel of *)
(* the outcome the Python call ends in.                                    *)
(***************************************************************************)
EXTENDS Integers, Sequences, FiniteSets, TLC

None == -1
TypeError == -2
IndexError == -3
ValueError == -4
KeyError == -5
OverflowError == -6

IsError(v) == v \in {TypeError, IndexError, ValueError, KeyError, OverflowError}

(***************************************************************************)
(* Integer bit operations (Python int.bit_length, ^, <<, >>, &).           *)
(***************************************************************************)
RECURSIVE bit_length(_)
bit_length(a) == IF a = 0 THEN 0 ELSE 1 + bit_length(a \div 2)

RECURSIVE Pow2(_)
Pow2(e) == IF e = 0 THEN 1 ELSE 2 * Pow2(e - 1)

RECURSIVE Xor(_, _)
Xor(a, b) ==
    IF a = 0 THEN b
    ELSE IF b = 0 THEN a
    ELSE ((a + b) % 2) + 2 * Xor(a \div 2, b \div 2)

\* a & bit, for bit a power of two: nonzero iff that bit of a is set
BitSet(a, bit) == (a \div bit) % 2 = 1

\* galoisfield.py modulo_gf2: the while loop, m and bit shifted right together
RECURSIVE modulo_gf2_loop(_, _, _, _)
modulo_gf2_loop(a, m, bit, mod) ==
    IF m >= mod
    THEN modulo_gf2_loop(IF BitSet(a, bit) THEN Xor(a, m) ELSE a,
                         m \div 2, bit \div 2, mod)
    ELSE a

modulo_gf2(a, mod) ==
    LET mod_bitlen == bit_length(mod)
        a_bitlen == bit_length(a)
    IN  IF a_bitlen < mod_bitlen
        THEN a
        ELSE modulo_gf2_loop(a, mod * Pow2(a_bitlen - mod_bitlen),
                             Pow2(a_bitlen - 1), mod)

(***************************************************************************)
(* GaloisField.__init__: element_count and the exp/log tables, lists of     *)
(* element_count + 1 entries.                                              *)
(***************************************************************************)
element_count_of(primitive_poly) == Pow2(bit_length(primitive_poly) - 1) - 1

\* [v] * n
RECURSIVE Repeat(_, _)
Repeat(v, n) ==
    IF n = 0 THEN << >>
    ELSE LET h == Repeat(v, n \div 2)
         IN  IF n % 2 = 1 THEN h \o h \o <<v>> ELSE h \o h

\* the loop "for i in range(1, element_count)" over both tables, run from i
\* up to (not including) stop.  Both list stores are index-checked: an index
\* outside the table ends the loop (Python raises IndexError; modulo_gf2
\* keeps e below 2^m, so the branch is never taken).
RECURSIVE gf_table_loop(_, _, _, _)
gf_table_loop(primitive_poly, stop, i, t) ==
    IF i >= stop
    THEN t
    ELSE LET e == modulo_gf2(2 * t.exp_table[i], primitive_poly)
         IN  IF e < Len(t.log_table)
             THEN gf_table_loop(primitive_poly, stop, i + 1,
                      [exp_table |-> [t.exp_table EXCEPT ![i + 1] = e],
                       log_table |-> [t.log_table EXCEPT ![e + 1] = i]])
             ELSE t

Min(a, b) == IF a < b THEN a ELSE b
Max(a, b) == IF a < b THEN b ELSE a

\* the same loop taken 32 iterations at a time; each part is evaluated (bound
\* to t2) before the next one starts
RECURSIVE gf_table_chunks(_, _, _, _)
gf_table_chunks(primitive_poly, count, i, t) ==
    IF i >= count
    THEN t
    ELSE CHOOSE r \in
           { gf_table_chunks(primitive_poly, count, i + 32, t2) :
               t2 \in {gf_table_loop(primitive_poly, Min(i + 32, count), i, t)} } :
           TRUE

GaloisField(primitive_poly) ==
    LET count == element_count_of(primitive_poly)
        t == gf_table_chunks(primitive_poly, count, 1,
                 [exp_table |-> Repeat(1, count + 1),
                  log_table |-> Repeat(0, count + 1)])
    IN  [primitive_poly |-> primitive_poly,
         element_count |-> count,
         exp_table |-> t.exp_table,
         log_table |-> [t.log_table EXCEPT ![1] = None]]

\* reedsolomon.py primitive_polynomials, indexed by degree (Python index d)
primitive_polynomials == <<0, 0, 0, 11, 19, 37, 67, 131, 285, 1033>>

\* Python list indexing list[i]: negative indices count from the end
PyIndex(list, i) ==
    IF i >= 0 /\ i < Len(list) THEN list[i + 1]
    ELSE IF i < 0 /\ i >= -Len(list) THEN list[Len(list) + i + 1]
    ELSE IndexError

(***************************************************************************)
(* GaloisField element operations.  An operand None (log_table[0]) in      *)
(* arithmetic is Python's TypeError.  An operand that already is the       *)
(* sentinel of an exception stands for a call that never happens: the      *)
(* sentinel is passed on.                                                  *)
(***************************************************************************)
mul(gf, a, b) ==
    IF IsError(a) THEN a
    ELSE IF IsError(b) THEN b
    ELSE IF a = 0 \/ b = 0
    THEN 0
    ELSE LET la == PyIndex(gf.log_table, a)
             lb == PyIndex(gf.log_table, b)
         IN  IF la = IndexError \/ lb = IndexError THEN IndexError
             ELSE IF la = None \/ lb = None THEN TypeError
             ELSE PyIndex(gf.exp_table, (la + lb) % gf.element_count)

div(gf, a, b) ==
    LET la == PyIndex(gf.log_table, a)
        lb == PyIndex(gf.log_table, b)
    IN  IF la = IndexError \/ lb = IndexError THEN IndexError
        ELSE IF la = None \/ lb = None THEN TypeError
        ELSE PyIndex(gf.exp_table, (la - lb) % gf.element_count)

add(a, b) == IF IsError(a) THEN a ELSE IF IsError(b) THEN b ELSE Xor(a, b)

exp(gf, a) == PyIndex(gf.exp_table, a)

log(gf, a) == PyIndex(gf.log_table, a)

inverse_keeps_sign(gf, a) ==
    LET la == PyIndex(gf.log_table, a)
    IN  IF la = IndexError THEN IndexError
        ELSE IF la = None THEN TypeError
        ELSE PyIndex(gf.exp_table, la % gf.element_count)

inverse(gf, a) ==
    LET la == PyIndex(gf.log_table, a)
    IN  IF la = IndexError THEN IndexError
        ELSE IF la = None THEN TypeError
        ELSE PyIndex(gf.exp_table, (-la) % gf.element_count)

(***************************************************************************)
(* Polynomials: lists of coefficients, most significant first.             *)
(***************************************************************************)
\* Python slice list[lo:hi] for 0 <= lo, hi (clipped to the list)
Slice(list, lo, hi) ==
    LET h == Min(hi, Len(list))
    IN  IF lo >= h THEN << >> ELSE SubSeq(list, lo + 1, h)

\* Python slice list[lo:hi:2]
SliceStep2(list, lo, hi) ==
    LET h == Min(hi, Len(list))
        cnt == IF lo >= h THEN 0 ELSE (h - lo + 1) \div 2
    IN  [m \in 1..cnt |-> list[lo + 2 * (m - 1) + 1]]

\* list reversed (list.reverse())
Reverse(list) == [m \in 1..Len(list) |-> list[Len(list) - m + 1]]

poly_scale(gf, a, b) == [m \in 1..Len(a) |-> mul(gf, a[m], b)]

\* poly_mul_standard, inner loop: res[i + j] ^= mul(ai, b[j]) for every j
poly_mul_row(gf, res, i, ai, b) ==
    [m \in 1..Len(res) |->
        IF m - 1 >= i /\ m - 1 < i + Len(b)
        THEN add(res[m], mul(gf, ai, b[m - i]))
        ELSE res[m]]

\* poly_mul_standard, outer loop from i on
RECURSIVE poly_mul_rows(_, _, _, _, _)
poly_mul_rows(gf, a, b, i, res) ==
    IF i >= Len(a)
    THEN res
    ELSE poly_mul_rows(gf, a, b, i + 1, poly_mul_row(gf, res, i, a[i + 1], b))

\* [0] * (b_len + a_len - 1) is the empty list when the count is negative
poly_mul_standard(gf, a, b) ==
    poly_mul_rows(gf, a, b, 0, Repeat(0, Max(Len(a) + Len(b) - 1, 0)))

poly_add(a, b) ==
    LET a_len == Len(a)
        b_len == Len(b)
        d == IF a_len > b_len THEN a_len - b_len ELSE b_len - a_len
    IN  IF a_len > b_len
        THEN [m \in 1..a_len |-> IF m > d THEN add(a[m], b[m - d]) ELSE a[m]]
        ELSE [m \in 1..b_len |-> IF m > d THEN add(b[m], a[m - d]) ELSE b[m]]

\* poly_mul_karatsuba; poly_mul dispatches to it, so the recursion is direct.
\* z0 + z1 + z2 is list concatenation.
RECURSIVE poly_mul_karatsuba(_, _, _)
poly_mul_karatsuba(gf, a, b) ==
    LET a_len == Len(a)
        b_len == Len(b)
    IN  IF a_len < 7 \/ b_len < 7
        THEN poly_mul_standard(gf, a, b)
        ELSE LET split1 == a_len \div 2
                 split2 == b_len \div 2
                 p1 == Slice(a, 0, split1)
                 p2 == Slice(a, split1, a_len)
                 q1 == Slice(b, 0, split2)
                 q2 == Slice(b, split2, b_len)
                 z2 == poly_mul_karatsuba(gf, p2, q2)
                 z0 == poly_mul_karatsuba(gf, p1, q1)
                 z1a == poly_mul_karatsuba(gf, poly_add(p1, p2), poly_add(q1, q2))
                 z1b == poly_add(z1a, z2)
                 z1 == poly_add(z1b, z0)
             IN  z0 \o z1 \o z2

poly_mul(gf, a, b) == poly_mul_karatsuba(gf, a, b)

\* poly_mod, loop from i on over res = list(a) + [0] * (b_len - 1)
RECURSIVE poly_mod_loop(_, _, _, _, _)
poly_mod_loop(gf, a_len, b, i, res) ==
    IF i >= a_len
    THEN res
    ELSE LET resi == res[i + 1]
         IN  poly_mod_loop(gf, a_len, b, i + 1,
                 IF resi # 0 THEN poly_mul_row(gf, res, i, resi, b) ELSE res)

poly_mod(gf, a, b) ==
    LET a_len == Len(a)
        res == poly_mod_loop(gf, a_len, b, 0, a \o Repeat(0, Max(Len(b) - 1, 0)))
    IN  Slice(res, a_len, Len(res))

\* poly_eval: Horner scheme from coefficient i on, y the value so far
RECURSIVE poly_eval_loop(_, _, _, _, _)
poly_eval_loop(gf, polynomial, x, i, y) ==
    IF i >= Len(polynomial)
    THEN y
    ELSE poly_eval_loop(gf, polynomial, x, i + 1,
             add(polynomial[i + 1], mul(gf, y, x)))

poly_eval(gf, polynomial, x) ==
    IF IsError(x) THEN x
    ELSE IF Len(polynomial) = 0
    THEN IndexError
    ELSE poly_eval_loop(gf, polynomial, x, 1, polynomial[1])

(***************************************************************************)
(* ReedSolomonEncoder.  An operator that returns a list or fails returns   *)
(* [err, val]: err = 0 and the list, or err the sentinel of the outcome    *)
(* (None for "return None") and val the empty list.                        *)
(***************************************************************************)
Ok(val) == [err |-> 0, val |-> val]
Fail(err) == [err |-> err, val |-> << >>]
\* what decode_block returns, with the n-symbol word it is cut from
Decoded(rse, word) == [err |-> 0, val |-> Slice(word, 0, rse.k), word |-> word]

\* the first exception sentinel in a list of values, 0 when there is none
FirstError(list) ==
    IF \E m \in 1..Len(list) : IsError(list[m])
    THEN list[CHOOSE m \in 1..Len(list) :
                 /\ IsError(list[m])
                 /\ \A m2 \in 1..(m - 1) : ~IsError(list[m2])]
    ELSE 0

\* max(list) of a non-empty list
RECURSIVE SeqMax(_)
SeqMax(list) ==
    IF Len(list) = 1 THEN list[1] ELSE Max(list[1], SeqMax(Tail(list)))

\* bytes(list): every value must be in range(0, 256)
IsBytes(list) == \A m \in 1..Len(list) : list[m] \in 0..255

\* compute_generator with the roots taken from alpha^1 on instead of alpha^0
RECURSIVE compute_generator_loop_shifted(_, _, _, _)
compute_generator_loop_shifted(gf, length, i, res_poly) ==
    IF i >= length
    THEN res_poly
    ELSE LET k == exp(gf, i % 255)
         IN  compute_generator_loop_shifted(gf, length, i + 1,
                 [m \in 1..length |->
                     IF m - 1 >= 1 /\ m - 1 <= i
                     THEN add(res_poly[m], mul(gf, res_poly[m - 1], k))
                     ELSE res_poly[m]])

\* compute_generator, outer loop from i on; the inner loop runs j downwards,
\* so res_poly[j - 1] is still the value of the previous round (\o << >>
\* makes a list of the round's values before the next round reads them)
RECURSIVE compute_generator_loop(_, _, _, _)
compute_generator_loop(gf, length, i, res_poly) ==
    IF i >= length
    THEN res_poly
    ELSE LET k == exp(gf, (i - 1) % 255)
         IN  compute_generator_loop(gf, length, i + 1,
                 [m \in 1..length |->
                     IF m - 1 >= 1 /\ m - 1 <= i
                     THEN add(res_poly[m], mul(gf, res_poly[m - 1], k))
                     ELSE res_poly[m]] \o << >>)

\* compute_generator: bytes(res_poly)
compute_generator_bytes(res_poly) ==
    IF FirstError(res_poly) # 0 THEN Fail(FirstError(res_poly))
    ELSE IF ~IsBytes(res_poly) THEN Fail(ValueError)
    ELSE Ok(res_poly)

compute_generator(gf, degree) ==
    CHOOSE r \in
        {compute_generator_bytes(res_poly) :
            res_poly \in {compute_generator_loop(gf, degree + 1, 1,
                              [m \in 1..(degree + 1) |->
                                  IF m = 1 THEN 1 ELSE 0])}} : TRUE

\* compute_generator_slow with the roots taken from alpha^1 on
RECURSIVE compute_generator_slow_loop_shifted(_, _, _, _)
compute_generator_slow_loop_shifted(gf, degree, i, g) ==
    IF i >= degree
    THEN g
    ELSE compute_generator_slow_loop_shifted(gf, degree, i + 1,
             poly_mul(gf, g, <<1, exp(gf, (i + 1) % 255)>>) \o << >>)

\* compute_generator_slow, loop from i on: g = poly_mul(g, (1, exp(i % 255)))
RECURSIVE compute_generator_slow_loop(_, _, _, _)
compute_generator_slow_loop(gf, degree, i, g) ==
    IF i >= degree
    THEN g
    ELSE compute_generator_slow_loop(gf, degree, i + 1,
             poly_mul(gf, g, <<1, exp(gf, i % 255)>>) \o << >>)

compute_generator_slow(gf, degree) ==
    CHOOSE r \in
        {compute_generator_bytes(g) :
            g \in {compute_generator_slow_loop(gf, degree, 0, <<1>>)}} : TRUE

\* ReedSolomonEncoder.__init__, the fields of the object, generator being
\* what compute_generator ended in
ReedSolomonEncoder_fields(gf, k, n, generator) ==
    IF generator.err # 0 THEN Fail(generator.err)
    ELSE Ok([gf |-> gf, n |-> n, k |-> k, corrections_len |-> n - k,
             generator |-> generator.val])

\* ReedSolomonEncoder.__init__ from "if n is None" on, gf being the field
ReedSolomonEncoder_checked(gf, k, n) ==
    IF n > gf.element_count THEN Fail(ValueError)
    ELSE CHOOSE r \in
             {ReedSolomonEncoder_fields(gf, k, n, generator) :
                 generator \in {compute_generator(gf, n - k)}} : TRUE

\* ReedSolomonEncoder.__init__ with k, n and primitive_poly all given
ReedSolomonEncoder(k, n, primitive_poly) ==
    CHOOSE r \in
        {ReedSolomonEncoder_checked(gf, k, n) :
            gf \in {GaloisField(primitive_poly)}} : TRUE

syndromes(rse, data) ==
    [m \in 1..rse.corrections_len |->
        poly_eval(rse.gf, data, exp(rse.gf, (m - 1) % 255))]

encode_block(rse, data) ==
    IF ~IsBytes(data) THEN Fail(TypeError)
    ELSE IF Len(data) # rse.k THEN Fail(ValueError)
    ELSE LET correction_data == poly_mod(rse.gf, data, rse.generator)
         IN  IF ~IsBytes(correction_data) THEN Fail(ValueError)
             ELSE Ok(correction_data)

\* find_errors: delta = synd[i] + sum of err_poly[err_poly_len - 1 - j] * synd[i - j]
\* for j from j on (synd[i - j] is a Python index: negative counts from the end)
RECURSIVE find_errors_delta(_, _, _, _, _, _)
find_errors_delta(gf, err_poly, synd, i, j, delta) ==
    IF j >= Len(err_poly)
    THEN delta
    ELSE find_errors_delta(gf, err_poly, synd, i, j + 1,
             add(delta, mul(gf, err_poly[Len(err_poly) - 1 - j + 1],
                            PyIndex(synd, i - j))))

\* find_errors, the body of "if delta != 0": the new (err_poly, old_poly);
\* old_poly is the list after this round's append(0)
find_errors_update(gf, err_poly, old_poly, delta) ==
    IF Len(old_poly) > Len(err_poly)
    THEN [err_poly |-> poly_add(poly_scale(gf, old_poly, delta),
                                poly_scale(gf, poly_scale(gf, err_poly,
                                                          inverse(gf, delta)), delta)),
          old_poly |-> poly_scale(gf, err_poly, inverse(gf, delta))]
    ELSE [err_poly |-> poly_add(err_poly, poly_scale(gf, old_poly, delta)),
          old_poly |-> old_poly]

\* find_errors: the loop "for i in range(self.corrections_len)" from i on;
\* polys is (err_poly, old_poly) before this round's append(0)
RECURSIVE find_errors_loop(_, _, _, _)
find_errors_round(rse, synd, i, polys, delta) ==
    IF IsError(delta) THEN Fail(delta)
    ELSE IF delta = 0
    THEN find_errors_loop(rse, synd, i + 1,
             [polys EXCEPT !.old_poly = Append(polys.old_poly, 0)])
    ELSE find_errors_loop(rse, synd, i + 1,
             find_errors_update(rse.gf, polys.err_poly,
                                Append(polys.old_poly, 0), delta))

find_errors_loop(rse, synd, i, polys) ==
    IF i >= rse.corrections_len
    THEN Ok(polys.err_poly)
    ELSE find_errors_round(rse, synd, i, polys,
             find_errors_delta(rse.gf, polys.err_poly, synd, i, 1, PyIndex(synd, i)))

\* find_errors, the last loop from i on: error_positions in the order found,
\* data_len - i - 1 for every i with e == 0 (evals lists e for every i)
RECURSIVE error_positions_of(_, _)
error_positions_of(evals, i) ==
    IF i >= Len(evals) THEN << >>
    ELSE IF evals[i + 1] = 0
    THEN <<Len(evals) - i - 1>> \o error_positions_of(evals, i + 1)
    ELSE error_positions_of(evals, i + 1)

\* find_errors: e of every round i of "for i in range(data_len)"
find_errors_evals(gf, err_poly, data_len) ==
    [m \in 1..data_len |->
        poly_eval(gf, err_poly, exp(gf, (255 - (m - 1)) % 255))]

\* find_errors from "errors = len(err_poly) - 1" on
find_errors_positions(errors, corrections_len, evals) ==
    IF errors * 2 > corrections_len THEN Fail(None)
    ELSE IF FirstError(evals) # 0 THEN Fail(FirstError(evals))
    ELSE IF Cardinality({m \in 1..Len(evals) : evals[m] = 0}) # errors THEN Fail(None)
    ELSE Ok(error_positions_of(evals, 0))

find_errors_located(rse, data, bm) ==
    IF bm.err # 0 THEN bm
    ELSE find_errors_positions(Len(bm.val) - 1, rse.corrections_len,
             IF (Len(bm.val) - 1) * 2 > rse.corrections_len THEN << >>
             ELSE find_errors_evals(rse.gf, bm.val, Len(data)))

\* find_errors with synd given
find_errors(rse, data, synd) ==
    find_errors_located(rse, data,
        find_errors_loop(rse, synd, 0, [err_poly |-> <<1>>, old_poly |-> <<1>>]))

\* forney_syndromes, inner loop and pop for one position
forney_step(rse, fsynd, x) ==
    [m \in 1..(Len(fsynd) - 1) |-> add(mul(rse.gf, fsynd[m], x), fsynd[m + 1])]

\* forney_syndromes from position number i on; pop() of an empty list fails
RECURSIVE forney_syndromes_loop(_, _, _, _)
forney_syndromes_loop(rse, positions, i, fsynd) ==
    IF i >= Len(positions) THEN fsynd
    ELSE IF Len(fsynd) = 0 THEN <<IndexError>>
    ELSE forney_syndromes_loop(rse, positions, i + 1,
             forney_step(rse, fsynd,
                 exp(rse.gf, (rse.corrections_len - 1 - positions[i + 1]) % 255)))

forney_syndromes_result(fsynd) ==
    IF FirstError(fsynd) # 0 THEN Fail(FirstError(fsynd)) ELSE Ok(fsynd)

forney_syndromes(rse, positions, synd) ==
    forney_syndromes_result(forney_syndromes_loop(rse, positions, 0, synd))

\* correct_deletions, first loop: error_locator times (x, 1) per position
RECURSIVE error_locator_loop(_, _, _, _, _)
error_locator_loop(gf, data_len, positions, i, error_locator) ==
    IF i >= Len(positions)
    THEN error_locator
    ELSE error_locator_loop(gf, data_len, positions, i + 1,
             poly_mul(gf, error_locator,
                      <<exp(gf, data_len - 1 - positions[i + 1]), 1>>))

\* correct_deletions, second loop, one round: corrected_data[p] += correction
correct_symbol(corrected_data, p, correction) ==
    IF IsError(correction) THEN Fail(correction)
    ELSE IF correction = 0 THEN Ok(corrected_data)
    ELSE IF IsError(PyIndex(corrected_data, p)) THEN Fail(IndexError)
    ELSE Ok([corrected_data EXCEPT
                ![IF p >= 0 THEN p + 1 ELSE Len(corrected_data) + p + 1] =
                    add(PyIndex(corrected_data, p), correction)])

\* correction = div(y, mul(x, z)), the operands computed in this order
correction_of(gf, x, y, z) ==
    IF IsError(x) THEN x
    ELSE IF IsError(y) THEN y
    ELSE IF IsError(z) THEN z
    ELSE div(gf, y, mul(gf, x, z))

correction_at(gf, error_evaluator, error_locator, x) ==
    correction_of(gf, x, poly_eval(gf, error_evaluator, x),
                  poly_eval(gf, error_locator, mul(gf, x, x)))

\* correct_deletions, second loop from position number i on
RECURSIVE correct_loop(_, _, _, _, _, _)
correct_loop_next(gf, positions, error_evaluator, error_locator, i, corrected) ==
    IF corrected.err # 0 THEN corrected
    ELSE correct_loop(gf, positions, error_evaluator, error_locator, i + 1,
                      corrected.val)

correct_loop(gf, positions, error_evaluator, error_locator, i, corrected_data) ==
    IF i >= Len(positions)
    THEN Ok(corrected_data)
    ELSE correct_loop_next(gf, positions, error_evaluator, error_locator, i,
             correct_symbol(corrected_data, positions[i + 1],
                 correction_at(gf, error_evaluator, error_locator,
                     exp(gf, (positions[i + 1] + 256 - Len(corrected_data)) % 255))))

\* bytes(corrected_data)
correct_deletions_result(corrected) ==
    IF corrected.err # 0 THEN corrected
    ELSE IF ~IsBytes(corrected.val) THEN Fail(ValueError)
    ELSE corrected

\* correct_deletions from "eval_len = len(error_evaluator)" on
correct_deletions_apply(rse, data, positions, error_locator, error_evaluator) ==
    correct_deletions_result(
        correct_loop(rse.gf, positions,
            Slice(error_evaluator, Len(error_evaluator) - Len(positions),
                  Len(error_evaluator)),
            SliceStep2(error_locator, Len(error_locator) % 2, Len(error_locator)),
            0, data))

\* correct_deletions from "error_evaluator = syndromes[:positions_len]" on
correct_deletions_evaluate(rse, data, positions, synd, error_locator) ==
    IF FirstError(error_locator) # 0 THEN Fail(FirstError(error_locator))
    ELSE correct_deletions_apply(rse, data, positions, error_locator,
             poly_mul(rse.gf, error_locator,
                      Reverse(Slice(synd, 0, Len(positions)))))

correct_deletions_locate(rse, data, positions, synd) ==
    IF FirstError(synd) # 0 THEN Fail(FirstError(synd))
    ELSE correct_deletions_evaluate(rse, data, positions, synd,
             error_locator_loop(rse.gf, Len(data), positions, 0, <<1>>))

\* correct_deletions with syndromes=None
correct_deletions(rse, data, positions) ==
    correct_deletions_locate(rse, data, positions, syndromes(rse, data))

\* decode_block, the first loop from i on: the positions with decoded[i] < 0
RECURSIVE erasure_positions_of(_, _)
erasure_positions_of(data, i) ==
    IF i >= Len(data) THEN << >>
    ELSE IF data[i + 1] < 0 THEN <<i>> \o erasure_positions_of(data, i + 1)
    ELSE erasure_positions_of(data, i + 1)

\* decode_block without the check of the syndromes after the correction
decode_block_verify_unchecked(rse, decoded, synd) ==
    IF FirstError(synd) # 0 THEN Fail(FirstError(synd))
    ELSE Decoded(rse, decoded)

\* decode_block from the second "synd = self.syndromes(decoded)" on
decode_block_verify(rse, decoded, synd) ==
    IF FirstError(synd) # 0 THEN Fail(FirstError(synd))
    ELSE IF SeqMax(synd) > 0 THEN Fail(None)
    ELSE Decoded(rse, decoded)

decode_block_corrected(rse, corrected) ==
    IF corrected.err # 0 THEN corrected
    ELSE decode_block_verify(rse, corrected.val, syndromes(rse, corrected.val))

\* decode_block from "if error_positions == None" on
decode_block_located(rse, decoded, erasure_positions, error_positions) ==
    IF error_positions.err # 0 THEN error_positions
    ELSE decode_block_corrected(rse,
             correct_deletions(rse, decoded, erasure_positions \o error_positions.val))

decode_block_forney(rse, decoded, erasure_positions, fsynd) ==
    IF fsynd.err # 0 THEN fsynd
    ELSE decode_block_located(rse, decoded, erasure_positions,
             find_errors(rse, decoded, fsynd.val))

\* decode_block that takes every received block for a clean one
decode_block_syndromes_ignored(rse, data, decoded, erasure_positions, synd) ==
    IF FirstError(synd) # 0 THEN Fail(FirstError(synd))
    ELSE IF Len(synd) = 0 THEN Fail(ValueError)
    ELSE Decoded(rse, data)

\* decode_block from "if max(synd) == 0" on
decode_block_syndromes(rse, data, decoded, erasure_positions, synd) ==
    IF FirstError(synd) # 0 THEN Fail(FirstError(synd))
    ELSE IF Len(synd) = 0 THEN Fail(ValueError)
    ELSE IF SeqMax(synd) = 0 THEN Decoded(rse, data)
    ELSE decode_block_forney(rse, decoded, erasure_positions,
             forney_syndromes(rse, erasure_positions, synd))

\* decode_block from "if len(erasure_positions) > self.corrections_len" on
decode_block_erasures(rse, data, decoded, erasure_positions) ==
    IF Len(erasure_positions) > rse.corrections_len THEN Fail(None)
    ELSE decode_block_syndromes(rse, data, decoded, erasure_positions,
             syndromes(rse, decoded))

\* decode_block.  data is bytes exactly when every symbol is in range(0, 256);
\* a list that marks erasures by negative symbols is not.
decode_block(rse, data) ==
    IF ~IsBytes(data) THEN Fail(TypeError)
    ELSE IF Len(data) # rse.n THEN Fail(ValueError)
    ELSE decode_block_erasures(rse, data,
             [m \in 1..Len(data) |-> IF data[m] < 0 THEN 0 ELSE data[m]],
             erasure_positions_of(data, 0))

(***************************************************************************)
(* qrcode.py: mode and version selection.  A string is the list of the     *)
(* code points of its characters; the mode None is the string "None".      *)
(***************************************************************************)
capacities == <<
    <<152, 128, 104, 72>>, <<272, 224, 176, 128>>,
    <<440, 352, 272, 208>>, <<640, 512, 384, 288>>,
    <<864, 688, 496, 368>>, <<1088, 864, 608, 480>>,
    <<1248, 992, 704, 528>>, <<1552, 1232, 880, 688>>,
    <<1856, 1456, 1056, 800>>, <<2192, 1728, 1232, 976>>,
    <<2592, 2032, 1440, 1120>>, <<2960, 2320, 1648, 1264>>,
    <<3424, 2672, 1952, 1440>>, <<3688, 2920, 2088, 1576>>,
    <<4184, 3320, 2360, 1784>>, <<4712, 3624, 2600, 2024>>,
    <<5176, 4056, 2936, 2264>>, <<5768, 4504, 3176, 2504>>,
    <<6360, 5016, 3560, 2728>>, <<6888, 5352, 3880, 3080>>,
    <<7456, 5172, 4096, 3248>>, <<8048, 6256, 4544, 3536>>,
    <<8752, 6880, 4912, 3712>>, <<9392, 7312, 5312, 4112>>,
    <<10208, 8000, 5744, 4304>>, <<10960, 8496, 6032, 4768>>,
    <<11744, 9024, 6464, 5024>>, <<12248, 9544, 6968, 5288>>,
    <<13048, 10136, 7288, 5608>>, <<13880, 10984, 7880, 5960>>,
    <<14744, 11640, 8264, 6344>>, <<15640, 12328, 8920, 6760>>,
    <<16568, 13048, 9368, 7208>>, <<17528, 13800, 9848, 7688>>,
    <<18448, 14496, 10288, 7888>>, <<19472, 15312, 10832, 8432>>,
    <<20528, 15936, 11408, 8768>>, <<21616, 16816, 12016, 9136>>,
    <<22496, 17728, 12656, 9776>>, <<23648, 18672, 13328, 10208>> >>

\* "0123456789ABCDEFGHIJKLMNOPQRSTUVWXYZ $%*+-./:"
alphanumeric_symbols ==
    <<48, 49, 50, 51, 52, 53, 54, 55, 56, 57,
      65, 66, 67, 68, 69, 70, 71, 72, 73, 74, 75, 76, 77,
      78, 79, 80, 81, 82, 83, 84, 85, 86, 87, 88, 89, 90,
      32, 36, 37, 42, 43, 45, 46, 47, 58>>

\* x in alphanumeric_symbols
InString(x, str) == \E m \in 1..Len(str) : str[m] = x

ec_level_index == [L |-> 0, M |-> 1, Q |-> 2, H |-> 3]

\* str.isnumeric() of one character: the code points below U+0700 whose
\* Unicode numeric type is Decimal, Digit or Numeric (0-9, superscript 2, 3
\* and 1, the fractions 1/4, 1/2 and 3/4, Arabic-Indic and Extended
\* Arabic-Indic digits)
numeric_code_points ==
    (48..57) \cup {178, 179, 185} \cup (188..190)
             \cup (1632..1641) \cup (1776..1785)

\* s.isnumeric(): at least one character and every character numeric
isnumeric(s) ==
    Len(s) > 0 /\ \A m \in 1..Len(s) : s[m] \in numeric_code_points

\* s.encode("iso 8859-1") raises no UnicodeEncodeError
latin1_encodable(s) == \A m \in 1..Len(s) : s[m] <= 255

select_encoding(s) ==
    IF isnumeric(s) THEN "numeric"
    ELSE IF \A m \in 1..Len(s) : InString(s[m], alphanumeric_symbols)
    THEN "alphanumeric"
    ELSE IF latin1_encodable(s) THEN "byte"
    ELSE "None"

encoding_length(encoding, data_length) ==
    IF encoding = "numeric"
    THEN 10 * (data_length \div 3)
         + (IF data_length % 3 = 1 THEN 4
            ELSE IF data_length % 3 = 2 THEN 7 ELSE 0)
    ELSE IF encoding = "alphanumeric"
    THEN 11 * (data_length \div 2) + (IF data_length % 2 = 1 THEN 6 ELSE 0)
    ELSE IF encoding = "byte" THEN 8 * data_length
    ELSE IF encoding = "kanji" THEN 13 * data_length
    ELSE ValueError

length_bitlen_v10 == [numeric |-> 10, alphanumeric |-> 9, byte |-> 8, kanji |-> 8]
length_bitlen_v27 == [numeric |-> 12, alphanumeric |-> 11, byte |-> 16, kanji |-> 10]
length_bitlen_v40 == [numeric |-> 14, alphanumeric |-> 13, byte |-> 16, kanji |-> 12]

\* what version_info returns: (version, capacity, length_bitlen), or the
\* exception it ends in
VersionInfo(version, capacity, length_bitlen) ==
    [err |-> 0, version |-> version, capacity |-> capacity,
     length_bitlen |-> length_bitlen]
VersionInfoFail(err) ==
    [err |-> err, version |-> 0, capacity |-> 0, length_bitlen |-> 0]

\* version_info, the length field of the version's tier: a tier one version
\* too long
length_bitlen_late(version, encoding) ==
    IF version <= 10 THEN length_bitlen_v10[encoding]
    ELSE IF version <= 27 THEN length_bitlen_v27[encoding]
    ELSE length_bitlen_v40[encoding]

\* version_info, the length field of the version's tier
length_bitlen_of(version, encoding) ==
    IF version < 10 THEN length_bitlen_v10[encoding]
    ELSE IF version < 27 THEN length_bitlen_v27[encoding]
    ELSE length_bitlen_v40[encoding]

\* version_info, the loop "while not version_selected" from version on;
\* capacities[version - 1] fails past the last row of the table
RECURSIVE version_info_loop(_, _, _, _)
version_info_loop(bit_len, ec_index, encoding, version) ==
    IF version - 1 >= Len(capacities)
    THEN VersionInfoFail(IndexError)
    ELSE IF capacities[version][ec_index + 1]
                - length_bitlen_of(version, encoding) - 4 >= bit_len
    THEN VersionInfo(version, capacities[version][ec_index + 1],
                     length_bitlen_of(version, encoding))
    ELSE version_info_loop(bit_len, ec_index, encoding, version + 1)

version_info(bit_len, ec_level, encoding) ==
    IF ec_level \notin DOMAIN ec_level_index THEN VersionInfoFail(KeyError)
    ELSE IF encoding \notin DOMAIN length_bitlen_v40 THEN VersionInfoFail(KeyError)
    ELSE IF capacities[Len(capacities)][ec_level_index[ec_level] + 1]
                - length_bitlen_v40[encoding] < bit_len
    THEN VersionInfoFail(ValueError)
    ELSE version_info_loop(bit_len, ec_level_index[ec_level], encoding, 1)

(***************************************************************************)
(* bitarray.py, BigEndianBitArray: byte_array, buffer and buffer_len; err  *)
(* is the exception a call on the object ended in (0: none).               *)
(***************************************************************************)
\* a | b
RECURSIVE Or(_, _)
Or(a, b) ==
    IF a = 0 THEN b
    ELSE IF b = 0 THEN a
    ELSE (IF a % 2 = 1 \/ b % 2 = 1 THEN 1 ELSE 0) + 2 * Or(a \div 2, b \div 2)

\* number.to_bytes(length, "big") for a number that fits
RECURSIVE int_to_bytes(_, _)
int_to_bytes(number, length) ==
    IF length = 0 THEN << >>
    ELSE Append(int_to_bytes(number \div 256, length - 1), number % 256)

BigEndianBitArray(b) ==
    [byte_array |-> b, buffer |-> 0, buffer_len |-> 0, err |-> 0]

\* extend from "encode_bytes = encode_len // 8" on; buffer and buffer_len are
\* assigned before to_bytes can raise OverflowError
extend_bytes(self, number, encode_bytes, buffer, buffer_len) ==
    IF encode_bytes > 0 /\ number >= Pow2(8 * encode_bytes)
    THEN [self EXCEPT !.buffer = buffer, !.buffer_len = buffer_len,
                      !.err = OverflowError]
    ELSE [self EXCEPT !.byte_array = self.byte_array
                                         \o int_to_bytes(number, encode_bytes),
                      !.buffer = buffer, !.buffer_len = buffer_len]

\* extend from "self.buffer_len = encode_len % 8" on, number and encode_len
\* already joined with the buffer
extend_joined(self, number, encode_len) ==
    extend_bytes(self, number \div Pow2(encode_len % 8),
                 (encode_len - (encode_len % 8)) \div 8,
                 number % Pow2(encode_len % 8), encode_len % 8)

\* extend without "number |= self.buffer << encode_len"
extend_unjoined(self, number, encode_len) ==
    IF self.err # 0 THEN self
    ELSE IF IsError(number) THEN [self EXCEPT !.err = number]
    ELSE extend_joined(self, number, encode_len + self.buffer_len)

\* BigEndianBitArray.extend(number, encode_len); a call on an object whose
\* earlier call raised, or with a number that is an exception, keeps the
\* first exception
extend(self, number, encode_len) ==
    IF self.err # 0 THEN self
    ELSE IF IsError(number) THEN [self EXCEPT !.err = number]
    ELSE extend_joined(self, Or(number, self.buffer * Pow2(encode_len)),
                       encode_len + self.buffer_len)

\* BigEndianBitArray.to_bytes
to_bytes(self) ==
    IF self.buffer_len > 0
    THEN self.byte_array \o <<self.buffer * Pow2(8 - self.buffer_len)>>
    ELSE self.byte_array

\* BigEndianBitArray.__len__
bits_len(self) == 8 * Len(self.byte_array) + self.buffer_len

\* BigEndianBitArray._index: (byte_index, bit_index), or IndexError
bitarray_index(self, index) ==
    LET l == bits_len(self)
        i == IF index < 0 THEN index + l ELSE index
    IN  IF i >= l \/ i < 0 THEN Fail(IndexError)
        ELSE Ok(<<i \div 8, 7 - (i % 8)>>)

\* BigEndianBitArray.__getitem__ with an int
getitem(self, item) ==
    LET at == bitarray_index(self, item)
    IN  IF at.err # 0 THEN at.err
        ELSE IF at.val[1] = Len(self.byte_array)
        THEN (self.buffer \div Pow2(7 - at.val[2])) % 2
        ELSE (self.byte_array[at.val[1] + 1] \div Pow2(at.val[2])) % 2

(***************************************************************************)
(* qrcode.py: encode.                                                      *)
(***************************************************************************)
encodings == [numeric |-> 1, alphanumeric |-> 2, byte |-> 4, kanji |-> 8,
              ECI |-> 7]

\* " $%*+-./:"
alphanumeric_special == <<32, 36, 37, 42, 43, 45, 46, 47, 58>>

\* a search that answers position 0 for a character str does not hold
str_index_lenient(str, c) ==
    IF InString(c, str)
    THEN (CHOOSE m \in 1..Len(str) :
              str[m] = c /\ \A m2 \in 1..(m - 1) : str[m2] # c) - 1
    ELSE 0

\* str.index(c): the first position (from 0) of c, ValueError without one
str_index(str, c) ==
    IF InString(c, str)
    THEN (CHOOSE m \in 1..Len(str) :
              str[m] = c /\ \A m2 \in 1..(m - 1) : str[m2] # c) - 1
    ELSE ValueError

encode_alnum_char(c) ==
    IF c >= 48 /\ c <= 57 THEN c - 48
    ELSE IF c >= 65 /\ c <= 90 THEN c - 55
    ELSE IF str_index(alphanumeric_special, c) = ValueError THEN ValueError
    ELSE 36 + str_index(alphanumeric_special, c)

\* int(c) of one character below U+0700: the value of a decimal digit (0-9,
\* Arabic-Indic, Extended Arabic-Indic), None for any other character
decimal_value(c) ==
    IF c \in 48..57 THEN c - 48
    ELSE IF c \in 1632..1641 THEN c - 1632
    ELSE IF c \in 1776..1785 THEN c - 1776
    ELSE None

\* int(str) of a string of numeric characters, read from the last character
\* backwards; ValueError when a character is no decimal digit or str is empty
RECURSIVE int_digits(_)
int_digits(str) ==
    IF Len(str) = 0 THEN 0
    ELSE decimal_value(str[Len(str)])
         + 10 * int_digits(SubSeq(str, 1, Len(str) - 1))

int_of(str) ==
    IF Len(str) = 0 \/ \E m \in 1..Len(str) : decimal_value(str[m]) = None
    THEN ValueError
    ELSE int_digits(str)

\* encode, numeric: the loop "for i in range(0, length - 2, 3)" from i on
RECURSIVE encode_numeric_loop(_, _, _)
encode_numeric_loop(bits, data, i) ==
    IF i >= Len(data) - 2 THEN bits
    ELSE CHOOSE r \in
             {encode_numeric_loop(extended, data, i + 3) :
                 extended \in {extend(bits, int_of(SubSeq(data, i + 1, i + 3)),
                                      10)}} : TRUE

\* encode, numeric: the remainder of 1 or 2 digits
encode_numeric_rest(bits, data) ==
    IF Len(data) % 3 = 1
    THEN extend(bits, int_of(SubSeq(data, Len(data), Len(data))), 4)
    ELSE IF Len(data) % 3 = 2
    THEN extend(bits, int_of(SubSeq(data, Len(data) - 1, Len(data))), 7)
    ELSE bits

\* a packing of the pair with the weights exchanged
alnum_pair_swapped(a, b) ==
    IF encode_alnum_char(a) = ValueError \/ encode_alnum_char(b) = ValueError
    THEN ValueError
    ELSE encode_alnum_char(a) + 45 * encode_alnum_char(b)

\* 45 * encode_alnum_char(a) + encode_alnum_char(b); the first ValueError wins
alnum_pair(a, b) ==
    IF encode_alnum_char(a) = ValueError \/ encode_alnum_char(b) = ValueError
    THEN ValueError
    ELSE 45 * encode_alnum_char(a) + encode_alnum_char(b)

\* encode, alphanumeric: the loop "for i in range(0, ln, 2)" from i on
RECURSIVE encode_alnum_loop(_, _, _)
encode_alnum_loop(bits, data, i) ==
    IF i >= Len(data) - (Len(data) % 2) THEN bits
    ELSE CHOOSE r \in
             {encode_alnum_loop(extended, data, i + 2) :
                 extended \in {extend(bits, alnum_pair(data[i + 1], data[i + 2]),
                                      11)}} : TRUE

encode_alnum_rest(bits, data) ==
    IF Len(data) % 2 = 1
    THEN extend(bits, encode_alnum_char(data[Len(data)]), 6)
    ELSE bits

\* encode, byte: the loop "for char in data" from i on
RECURSIVE encode_byte_loop(_, _, _)
encode_byte_loop(bits, data, i) ==
    IF i >= Len(data) THEN bits
    ELSE CHOOSE r \in
             {encode_byte_loop(extended, data, i + 1) :
                 extended \in {extend(bits, data[i + 1], 8)}} : TRUE

\* encode, the branch of the encoding
encode_payload(bits, data, encoding) ==
    IF encoding = "numeric"
    THEN encode_numeric_rest(encode_numeric_loop(bits, data, 0), data)
    ELSE IF encoding = "alphanumeric"
    THEN encode_alnum_rest(encode_alnum_loop(bits, data, 0), data)
    ELSE IF encoding = "byte" THEN encode_byte_loop(bits, data, 0)
    ELSE [bits EXCEPT !.err = ValueError]

\* what encode returns: (encoded, encoding, version), or the exception
Encoded(encoded, encoding, version) ==
    [err |-> 0, encoded |-> encoded, encoding |-> encoding, version |-> version]
EncodeFail(err) ==
    [err |-> err, encoded |-> << >>, encoding |-> "None", version |-> 0]

\* bytes(17 if i & 1 else 236 for i in range(pad_bytes))
pad_sequence(pad_bytes) ==
    [i \in 1..pad_bytes |-> IF (i - 1) % 2 = 1 THEN 17 ELSE 236]

\* encode from "encoded = bits.to_bytes()" on
encode_padded(encoded, encoding, version, expected_length) ==
    Encoded(IF expected_length - Len(encoded) > 0
            THEN encoded \o pad_sequence(expected_length - Len(encoded))
            ELSE encoded,
            encoding, version)

\* encode from "zeroes = min((4, capacity - enc_length))" on
encode_terminated(bits, encoding, info, enc_length, ec_level) ==
    IF bits.err # 0 THEN EncodeFail(bits.err)
    ELSE encode_padded(
             to_bytes(extend(bits, 0, Min(4, info.capacity - enc_length))),
             encoding, info.version,
             capacities[info.version][ec_level_index[ec_level] + 1] \div 8)

\* encode from "bits.extend(length, length_len)" on
encode_packed(bits, data, encoding, info, enc_length, ec_level) ==
    IF info.err # 0 THEN EncodeFail(info.err)
    ELSE encode_terminated(
             encode_payload(extend(bits, Len(data), info.length_bitlen),
                            data, encoding),
             encoding, info, enc_length, ec_level)

\* encode from "bits.extend(encodings[encoding], 4)" on
encode_selected(data, ec_level, encoding) ==
    IF encoding \notin DOMAIN encodings THEN EncodeFail(KeyError)
    ELSE encode_packed(extend(BigEndianBitArray(<< >>), encodings[encoding], 4),
                       data, encoding,
                       version_info(encoding_length(encoding, Len(data)),
                                    ec_level, encoding),
                       encoding_length(encoding, Len(data)), ec_level)

encode(data, ec_level) == encode_selected(data, ec_level, select_encoding(data))

(***************************************************************************)
(* qrcode.py: block interleaving.  A group is a sequence of blocks, a      *)
(* block a sequence of symbols.                                            *)
(***************************************************************************)
\* (block for group in groups for block in group)
RECURSIVE groups_blocks(_)
groups_blocks(groups) ==
    IF Len(groups) = 0 THEN << >>
    ELSE groups[1] \o groups_blocks(Tail(groups))

\* zip_longest(*blocks): the j-th tuple holds the j-th symbol of every block,
\* None for a block that has none
zip_longest(blocks) ==
    IF Len(blocks) = 0 THEN << >>
    ELSE [j \in 1..SeqMax([b \in 1..Len(blocks) |-> Len(blocks[b])]) |->
             [b \in 1..Len(blocks) |->
                 IF j <= Len(blocks[b]) THEN blocks[b][j] ELSE None]]

\* a filter that passes the values Python takes for true
is_truthy(val) == val # None /\ val # 0

\* "if val != None"
is_not_none(val) == val # None

\* the values groups_iterator yields from the tuples from j on
RECURSIVE groups_iterator_loop(_, _)
groups_iterator_loop(tuples, j) ==
    IF j > Len(tuples) THEN << >>
    ELSE SelectSeq(tuples[j], is_not_none) \o groups_iterator_loop(tuples, j + 1)

groups_iterator(groups) ==
    groups_iterator_loop(zip_longest(groups_blocks(groups)), 1)

\* bytes(groups_iterator(groups))
interleave_blocks(groups) ==
    IF IsBytes(groups_iterator(groups))
    THEN Ok(groups_iterator(groups))
    ELSE Fail(ValueError)

(***************************************************************************)
(* qrcode.py: the tables of the symbol, error correction of the data       *)
(* codewords and the bit stream of the symbol.                             *)
(***************************************************************************)
\* alignments: the centres of the alignment patterns of versions 2 to 40
alignments ==
    <<<<6, 18>>,
      <<6, 22>>,
      <<6, 26>>,
      <<6, 30>>,
      <<6, 34>>,
      <<6, 22, 38>>,
      <<6, 24, 42>>,
      <<6, 26, 46>>,
      <<6, 28, 50>>,
      <<6, 30, 54>>,
      <<6, 32, 58>>,
      <<6, 34, 62>>,
      <<6, 26, 46, 66>>,
      <<6, 26, 48, 70>>,
      <<6, 26, 50, 74>>,
      <<6, 30, 54, 78>>,
      <<6, 30, 56, 82>>,
      <<6, 30, 58, 86>>,
      <<6, 34, 62, 90>>,
      <<6, 28, 50, 72, 94>>,
      <<6, 26, 50, 74, 98>>,
      <<6, 30, 54, 78, 102>>,
      <<6, 28, 54, 80, 106>>,
      <<6, 32, 58, 84, 110>>,
      <<6, 30, 58, 86, 114>>,
      <<6, 34, 62, 90, 118>>,
      <<6, 26, 50, 74, 98, 122>>,
      <<6, 30, 54, 78, 102, 126>>,
      <<6, 26, 52, 78, 104, 130>>,
      <<6, 30, 56, 82, 108, 134>>,
      <<6, 34, 60, 86, 112, 138>>,
      <<6, 30, 58, 86, 114, 142>>,
      <<6, 34, 62, 90, 118, 146>>,
      <<6, 30, 54, 78, 102, 126, 150>>,
      <<6, 24, 50, 76, 102, 128, 154>>,
      <<6, 28, 54, 80, 106, 132, 158>>,
      <<6, 32, 58, 84, 110, 136, 162>>,
      <<6, 26, 54, 82, 110, 138, 166>>,
      <<6, 30, 58, 86, 114, 142, 170>>>>

\* blocks[version - 1][ec_index]: correction symbols per block, then for each
\* group the number of blocks and the data symbols per block
blocks ==
    <<<<<<7, 1, 19>>, <<10, 1, 16>>, <<13, 1, 13>>, <<17, 1, 9>>>>,
      <<<<10, 1, 34>>, <<16, 1, 28>>, <<22, 1, 22>>, <<28, 1, 16>>>>,
      <<<<15, 1, 55>>, <<26, 1, 44>>, <<18, 2, 17>>, <<22, 2, 13>>>>,
      <<<<20, 1, 80>>, <<18, 2, 32>>, <<26, 2, 24>>, <<16, 4, 9>>>>,
      <<<<26, 1, 108>>, <<24, 2, 43>>, <<18, 2, 15, 2, 16>>, <<22, 2, 11, 2, 12>>>>,
      <<<<18, 2, 68>>, <<16, 4, 27>>, <<24, 4, 19>>, <<28, 4, 15>>>>,
      <<<<20, 2, 78>>, <<18, 4, 31>>, <<18, 2, 14, 4, 15>>, <<26, 4, 13, 1, 14>>>>,
      <<<<24, 2, 97>>, <<22, 2, 38, 2, 39>>, <<22, 4, 18, 2, 19>>, <<26, 4, 14, 2, 15>>>>,
      <<<<30, 2, 116>>, <<22, 3, 36, 2, 37>>, <<20, 4, 16, 4, 17>>, <<24, 4, 12, 4, 13>>>>,
      <<<<18, 2, 68, 2, 69>>, <<26, 4, 43, 1, 44>>, <<24, 6, 19, 2, 20>>, <<28, 6, 15, 2, 16>>>>,
      <<<<20, 4, 81>>, <<30, 1, 50, 4, 51>>, <<28, 4, 22, 4, 23>>, <<24, 3, 12, 8, 13>>>>,
      <<<<24, 2, 92, 2, 93>>, <<22, 6, 36, 2, 37>>, <<26, 4, 20, 6, 21>>, <<28, 7, 14, 4, 15>>>>,
      <<<<26, 4, 107>>, <<22, 8, 37, 1, 38>>, <<24, 8, 20, 4, 21>>, <<22, 12, 11, 4, 12>>>>,
      <<<<30, 3, 115, 1, 116>>, <<24, 4, 40, 5, 41>>, <<20, 11, 16, 5, 17>>, <<24, 11, 12, 5, 13>>>>,
      <<<<22, 5, 87, 1, 88>>, <<24, 5, 41, 5, 42>>, <<30, 5, 24, 7, 25>>, <<24, 11, 12, 7, 13>>>>,
      <<<<24, 5, 98, 1, 99>>, <<28, 7, 45, 3, 46>>, <<24, 15, 19, 2, 20>>, <<30, 3, 15, 13, 16>>>>,
      <<<<28, 1, 107, 5, 108>>, <<28, 10, 46, 1, 47>>, <<28, 1, 22, 15, 23>>, <<28, 2, 14, 17, 15>>>>,
      <<<<30, 5, 120, 1, 121>>, <<26, 9, 43, 4, 44>>, <<28, 17, 22, 1, 23>>, <<28, 2, 14, 19, 15>>>>,
      <<<<28, 3, 113, 4, 114>>, <<26, 3, 44, 11, 45>>, <<26, 17, 21, 4, 22>>, <<26, 9, 13, 16, 14>>>>,
      <<<<28, 3, 107, 5, 108>>, <<26, 3, 41, 13, 42>>, <<30, 15, 24, 5, 25>>, <<28, 15, 15, 10, 16>>>>,
      <<<<28, 4, 116, 4, 117>>, <<26, 17, 42>>, <<28, 17, 22, 6, 23>>, <<30, 19, 16, 6, 17>>>>,
      <<<<28, 2, 111, 7, 112>>, <<28, 17, 46>>, <<30, 7, 24, 16, 25>>, <<24, 34, 13>>>>,
      <<<<30, 4, 121, 5, 122>>, <<28, 4, 47, 14, 48>>, <<30, 11, 24, 14, 25>>, <<30, 16, 15, 14, 16>>>>,
      <<<<30, 6, 117, 4, 118>>, <<28, 6, 45, 14, 46>>, <<30, 11, 24, 16, 25>>, <<30, 30, 16, 2, 17>>>>,
      <<<<26, 8, 106, 4, 107>>, <<28, 8, 47, 13, 48>>, <<30, 7, 24, 22, 25>>, <<30, 22, 15, 13, 16>>>>,
      <<<<28, 10, 114, 2, 115>>, <<28, 19, 46, 4, 47>>, <<28, 28, 22, 6, 23>>, <<30, 33, 16, 4, 17>>>>,
      <<<<30, 8, 122, 4, 123>>, <<28, 22, 45, 3, 46>>, <<30, 8, 23, 26, 24>>, <<30, 12, 15, 28, 16>>>>,
      <<<<30, 3, 117, 10, 118>>, <<28, 3, 45, 23, 46>>, <<30, 4, 24, 31, 25>>, <<30, 11, 15, 31, 16>>>>,
      <<<<30, 7, 116, 7, 117>>, <<28, 21, 45, 7, 46>>, <<30, 1, 23, 37, 24>>, <<30, 19, 15, 26, 16>>>>,
      <<<<30, 5, 115, 10, 116>>, <<28, 19, 47, 10, 48>>, <<30, 15, 24, 25, 25>>, <<30, 23, 15, 25, 16>>>>,
      <<<<30, 13, 115, 3, 116>>, <<28, 2, 46, 29, 47>>, <<30, 42, 24, 1, 25>>, <<30, 23, 15, 28, 16>>>>,
      <<<<30, 17, 115>>, <<28, 10, 46, 23, 47>>, <<30, 10, 24, 35, 25>>, <<30, 19, 15, 35, 16>>>>,
      <<<<30, 17, 115, 1, 116>>, <<28, 14, 46, 21, 47>>, <<30, 29, 24, 19, 25>>, <<30, 11, 15, 46, 16>>>>,
      <<<<30, 13, 115, 6, 116>>, <<28, 14, 46, 23, 47>>, <<30, 44, 24, 7, 25>>, <<30, 59, 16, 1, 17>>>>,
      <<<<30, 12, 121, 7, 122>>, <<28, 12, 47, 26, 48>>, <<30, 39, 24, 14, 25>>, <<30, 22, 15, 41, 16>>>>,
      <<<<30, 6, 121, 14, 122>>, <<28, 6, 47, 34, 48>>, <<30, 46, 24, 10, 25>>, <<30, 2, 15, 64, 16>>>>,
      <<<<30, 17, 122, 4, 123>>, <<28, 29, 46, 14, 47>>, <<30, 49, 24, 10, 25>>, <<30, 24, 15, 46, 16>>>>,
      <<<<30, 4, 122, 18, 123>>, <<28, 13, 46, 32, 47>>, <<30, 48, 24, 14, 25>>, <<30, 42, 15, 32, 16>>>>,
      <<<<30, 20, 117, 4, 118>>, <<28, 40, 47, 7, 48>>, <<30, 43, 24, 22, 25>>, <<30, 10, 15, 67, 16>>>>,
      <<<<30, 19, 118, 6, 119>>, <<28, 18, 47, 31, 48>>, <<30, 34, 24, 34, 25>>, <<30, 20, 15, 61, 16>>>>>>


\* BigEndianBitArray.__iter__: the bits of the bytes, most significant
\* first, then the bits of the buffer
bitarray_iter(self) ==
    [k \in 1..(8 * Len(self.byte_array)) |->
        (self.byte_array[(k - 1) \div 8 + 1] \div Pow2(7 - ((k - 1) % 8))) % 2]
    \o [k \in 1..self.buffer_len |->
           (self.buffer \div Pow2(self.buffer_len - k)) % 2]

\* correction_encode: the data blocks of one group, encoded_data[i:i2] for
\* every block_index
group_data_blocks(encoded_data, group_start_index, block_count, block_len) ==
    [b \in 1..block_count |->
        Slice(encoded_data, group_start_index + (b - 1) * block_len,
              group_start_index + b * block_len)]

\* correction_encode: rse.encode_block(enc_block) for the blocks of one
\* group, rse being what the constructor ended in
group_ec_blocks(rse, data_blocks) ==
    [b \in 1..Len(data_blocks) |->
        IF rse.err # 0 THEN Fail(rse.err)
        ELSE encode_block(rse.val, data_blocks[b])]

\* correction_encode: the loop "for group in range(groups)" from group on;
\* every group gets a coder of its own
RECURSIVE correction_encode_loop(_, _, _, _)
correction_encode_loop(encoded_data, format_, group, group_start_index) ==
    IF group >= (Len(format_) - 1) \div 2
    THEN << >>
    ELSE <<CHOOSE coded \in
               {[data_blocks |-> group_data_blocks(encoded_data,
                                     group_start_index,
                                     format_[2 * group + 2],
                                     format_[2 * group + 3]),
                 ec_blocks |-> group_ec_blocks(rse,
                                   group_data_blocks(encoded_data,
                                       group_start_index,
                                       format_[2 * group + 2],
                                       format_[2 * group + 3]))] :
                   rse \in {ReedSolomonEncoder(
                               format_[2 * group + 3],
                               format_[2 * group + 3] + format_[1], 285)}} :
               TRUE>>
         \o correction_encode_loop(encoded_data, format_, group + 1,
                group_start_index
                    + format_[2 * group + 2] * format_[2 * group + 3])

\* the first exception among the blocks of the groups, 0 without one
groups_error(coded) ==
    FirstError([b \in 1..Len(groups_blocks([g \in 1..Len(coded) |-> coded[g].ec_blocks])) |->
                   groups_blocks([g \in 1..Len(coded) |-> coded[g].ec_blocks])[b].err])

\* what correction_encode returns: (data_blocks, ec_blocks), or the exception
correction_encoded(coded) ==
    [err |-> groups_error(coded),
     data_blocks |-> [g \in 1..Len(coded) |-> coded[g].data_blocks],
     ec_blocks |-> [g \in 1..Len(coded) |->
                       [b \in 1..Len(coded[g].ec_blocks) |->
                           coded[g].ec_blocks[b].val]]]

correction_encode(encoded_data, version, ec_level) ==
    CHOOSE r \in
        {correction_encoded(coded) :
            coded \in {correction_encode_loop(encoded_data,
                           blocks[version][ec_level_index[ec_level] + 1],
                           0, 0)}} : TRUE

\* what qr_bits returns: (ec_bits, version), or the exception
QRBits(byte_array, version) ==
    [err |-> 0, bits |-> BigEndianBitArray(byte_array), version |-> version]
QRBitsFail(err) ==
    [err |-> err, bits |-> BigEndianBitArray(<< >>), version |-> 0]

\* qr_bits from "ec_data = ..." on
qr_bits_interleaved(corrected, version) ==
    IF corrected.err # 0 THEN QRBitsFail(corrected.err)
    ELSE IF interleave_blocks(corrected.data_blocks).err # 0
         \/ interleave_blocks(corrected.ec_blocks).err # 0
    THEN QRBitsFail(ValueError)
    ELSE QRBits(interleave_blocks(corrected.data_blocks).val
                    \o interleave_blocks(corrected.ec_blocks).val,
                version)

\* qr_bits from "data_groups, ec_groups = ..." on
qr_bits_encoded(out, ec_level) ==
    IF out.err # 0 THEN QRBitsFail(out.err)
    ELSE CHOOSE r \in
             {qr_bits_interleaved(corrected, out.version) :
                 corrected \in {correction_encode(out.encoded, out.version,
                                                  ec_level)}} : TRUE

qr_bits(data, ec_level) ==
    CHOOSE r \in {qr_bits_encoded(out, ec_level) :
                     out \in {encode(data, ec_level)}} : TRUE

(***************************************************************************)
(* qrcode.py: class QRCode.  The matrix is a list of rows of colour codes; *)
(* matrix[y][x] of the code is matrix[y + 1][x + 1] here.                  *)
(***************************************************************************)
MARGIN_WIDTH == 4
DATA_BLACK == 1
DATA_WHITE == 0
FORMAT_BLACK == -1
FORMAT_WHITE == -2

\* the position a Python index stands for in a list of the given length
list_index(i, length) == IF i < 0 THEN i + length ELSE i

\* index is among the indices range(start, stop) stands for
in_range(index, start, stop, length) ==
    \E i \in start..(stop - 1) : list_index(i, length) = index

\* matrix[y][x] = color_code
set_module(matrix, y, x, color_code) ==
    [matrix EXCEPT ![list_index(y, Len(matrix)) + 1]
                       [list_index(x, Len(matrix)) + 1] = color_code]

mark_rectangle(matrix, x, y, width, height, color_code) ==
    [r \in 1..Len(matrix) |->
        IF in_range(r - 1, y, y + height, Len(matrix))
        THEN [c \in 1..Len(matrix) |->
                 IF in_range(c - 1, x, x + width, Len(matrix))
                 THEN color_code
                 ELSE matrix[r][c]] \o << >>
        ELSE matrix[r]] \o << >>

\* mark_finder_pattern: the four sides and the centre
mark_finder_pattern_black(matrix, xindex, yindex) ==
    mark_rectangle(
        mark_rectangle(
            mark_rectangle(
                mark_rectangle(
                    mark_rectangle(matrix, xindex, yindex, 7, 1, FORMAT_BLACK),
                    xindex, yindex, 1, 7, FORMAT_BLACK),
                xindex + 6, yindex, 1, 7, FORMAT_BLACK),
            xindex, yindex + 6, 7, 1, FORMAT_BLACK),
        xindex + 2, yindex + 2, 3, 3, FORMAT_BLACK)

\* mark_finder_pattern: the white ring, xindex2 = xindex + 1, yindex2 = yindex + 1
mark_finder_pattern_white(matrix, xindex2, yindex2) ==
    mark_rectangle(
        mark_rectangle(
            mark_rectangle(
                mark_rectangle(matrix, xindex2, yindex2, 5, 1, FORMAT_WHITE),
                xindex2, yindex2, 1, 5, FORMAT_WHITE),
            xindex2 + 4, yindex2, 1, 5, FORMAT_WHITE),
        xindex2, yindex2 + 4, 5, 1, FORMAT_WHITE)

mark_finder_pattern(matrix, xindex, yindex) ==
    mark_finder_pattern_white(
        mark_finder_pattern_black(matrix, xindex, yindex),
        xindex + 1, yindex + 1)

\* mark_finder_patterns: the separators
mark_separators(matrix, width) ==
    mark_rectangle(
        mark_rectangle(
            mark_rectangle(
                mark_rectangle(
                    mark_rectangle(
                        mark_rectangle(matrix, 7, 0, 1, 8, FORMAT_WHITE),
                        0, 7, 8, 1, FORMAT_WHITE),
                    width - 8, 7, 8, 1, FORMAT_WHITE),
                width - 8, 0, 1, 8, FORMAT_WHITE),
            0, width - 8, 8, 1, FORMAT_WHITE),
        7, width - 8, 1, 8, FORMAT_WHITE)

mark_finder_patterns(matrix, width) ==
    mark_separators(
        mark_finder_pattern(
            mark_finder_pattern(
                mark_finder_pattern(matrix, 0, 0),
                0, width - 7),
            width - 7, 0),
        width)

\* mark_timing_pattern: matrix[i][6] and matrix[6][i] for i in
\* range(8, width - 8), white for odd i
mark_timing_pattern(matrix, width) ==
    [r \in 1..Len(matrix) |->
        [c \in 1..Len(matrix[r]) |->
            IF c - 1 = 6 /\ r - 1 \in 8..(width - 9)
            THEN (IF (r - 1) % 2 = 1 THEN FORMAT_WHITE ELSE FORMAT_BLACK)
            ELSE IF r - 1 = 6 /\ c - 1 \in 8..(width - 9)
            THEN (IF (c - 1) % 2 = 1 THEN FORMAT_WHITE ELSE FORMAT_BLACK)
            ELSE matrix[r][c]] \o << >>] \o << >>

\* mark_alignment_pattern, xindex and yindex being the corner (the centre
\* less 2): the modules of the first loop, of the second loop, the centre
alignment_black(x, y, xindex, yindex) ==
    \/ \E i \in 0..3 : \/ (y = yindex /\ x = xindex + i + 1)
                       \/ (y = yindex + i + 1 /\ x = xindex + 4)
                       \/ (y = yindex + 4 /\ x = xindex + i)
                       \/ (y = yindex + i /\ x = xindex)
    \/ (y = yindex + 2 /\ x = xindex + 2)
alignment_white(x, y, xindex, yindex) ==
    \E i \in 0..1 : \/ (y = yindex + 1 /\ x = xindex + i + 2)
                    \/ (y = yindex + i + 2 /\ x = xindex + 3)
                    \/ (y = yindex + 3 /\ x = xindex + i + 1)
                    \/ (y = yindex + i + 1 /\ x = xindex + 1)

mark_alignment_pattern(matrix, xindex, yindex) ==
    [r \in 1..Len(matrix) |->
        IF r - 1 \in (yindex - 2)..(yindex + 2)
        THEN [c \in 1..Len(matrix[r]) |->
                 IF alignment_white(c - 1, r - 1, xindex - 2, yindex - 2)
                 THEN FORMAT_WHITE
                 ELSE IF alignment_black(c - 1, r - 1, xindex - 2, yindex - 2)
                 THEN FORMAT_BLACK
                 ELSE matrix[r][c]] \o << >>
        ELSE matrix[r]] \o << >>

\* mark_alignment_patterns: the centres in the order of the two loops
alignment_centres(positions) ==
    [n \in 1..(Len(positions) * Len(positions)) |->
        <<positions[((n - 1) % Len(positions)) + 1],
          positions[(n - 1) \div Len(positions) + 1]>>]
    \o [n \in 1..(2 * (Len(positions) - 1)) |->
           IF n % 2 = 1 THEN <<6, positions[(n + 1) \div 2]>>
           ELSE <<positions[n \div 2], 6>>]

RECURSIVE mark_alignment_loop(_, _, _)
mark_alignment_loop(matrix, centres, n) ==
    IF n > Len(centres) THEN matrix
    ELSE CHOOSE r \in
             {mark_alignment_loop(marked, centres, n + 1) :
                 marked \in {mark_alignment_pattern(matrix, centres[n][1],
                                                    centres[n][2])}} : TRUE

mark_alignment_patterns(matrix, version) ==
    IF version = 1 THEN matrix
    ELSE mark_alignment_loop(matrix,
             alignment_centres(Tail(alignments[version - 1])), 1)

mark_dark_module(matrix) == set_module(matrix, -8, 8, FORMAT_BLACK)

reserve_format_information_area(matrix) ==
    mark_rectangle(
        mark_rectangle(
            mark_rectangle(
                mark_rectangle(
                    mark_rectangle(matrix, 8, 0, 1, 6, FORMAT_WHITE),
                    0, 8, 6, 1, FORMAT_WHITE),
                7, 7, 2, 2, FORMAT_WHITE),
            -8, 8, 8, 1, FORMAT_WHITE),
        8, -7, 1, 7, FORMAT_WHITE)

reserve_version_information_area(matrix, version) ==
    IF version >= 7
    THEN mark_rectangle(
             mark_rectangle(matrix, 0, -11, 6, 3, FORMAT_WHITE),
             -11, 0, 3, 6, FORMAT_WHITE)
    ELSE matrix

\* a & b
RECURSIVE And(_, _)
And(a, b) ==
    IF a = 0 \/ b = 0 THEN 0
    ELSE ((a % 2) * (b % 2)) + 2 * And(a \div 2, b \div 2)

\* mask_functions[index](row, col)
mask_functions(index, row, col) ==
    IF index = 0 THEN And(Xor(row, col), 1)
    ELSE IF index = 1 THEN And(row, 1)
    ELSE IF index = 2 THEN col % 3
    ELSE IF index = 3 THEN (row + col) % 3
    ELSE IF index = 4 THEN And(Xor(row \div 2, col \div 3), 1)
    ELSE IF index = 5 THEN (row * col) % 6
    ELSE IF index = 6 THEN And(((row * col) % 2) + ((row * col) % 3), 1)
    ELSE And(And(row + col, 1 + ((row * col) % 3)), 1)

\* data_position_generator without the test of the module's code
is_data_module_any(matrix, x, y) == TRUE

\* data_position_generator: the test of a module before it is yielded
is_data_module(matrix, x, y) ==
    /\ matrix[y + 1][x + 1] # FORMAT_BLACK
    /\ matrix[y + 1][x + 1] # FORMAT_WHITE

\* data_position_generator: one loop over y, upwards (range(width - 1, -1, -1))
\* or downwards (range(width)): per row (x1, y) then (x2, y)
column_pair(matrix, width, x1, x2, upwards) ==
    SelectSeq([n \in 1..(2 * width) |->
                  <<IF n % 2 = 1 THEN x1 ELSE x2,
                    IF upwards THEN width - 1 - ((n - 1) \div 2)
                    ELSE (n - 1) \div 2>>],
              LAMBDA xy : is_data_module(matrix, xy[1], xy[2]))

\* data_position_generator without "if i == 8: i = 7"
RECURSIVE data_position_loop_no_jump(_, _, _)
data_position_loop_no_jump(matrix, width, i) ==
    IF i <= 2 THEN << >>
    ELSE column_pair(matrix, width, i, i - 1, TRUE)
         \o column_pair(matrix, width, i - 2, i - 3, FALSE)
         \o data_position_loop_no_jump(matrix, width, i - 4)

\* data_position_generator: the loop "while i > 2" from i on
RECURSIVE data_position_loop(_, _, _)
data_position_loop(matrix, width, i) ==
    IF i <= 2 THEN << >>
    ELSE column_pair(matrix, width, i, i - 1, TRUE)
         \o column_pair(matrix, width, (IF i = 8 THEN 7 ELSE i) - 2,
                        (IF i = 8 THEN 7 ELSE i) - 3, FALSE)
         \o data_position_loop(matrix, width, (IF i = 8 THEN 7 ELSE i) - 4)

\* the (x, y) the generator yields, in order
data_position_generator(matrix, width) ==
    data_position_loop(matrix, width, width - 1)

\* the yields of the generator that name module (x, y), among the first count
yields_of(positions, count, x, y) ==
    {k \in 1..count : positions[k] = <<x, y>>}

\* mark_bits: zip(positions, bits) ends with the shorter one; the last bit
\* written to a module stays
mark_bits_zipped(matrix, positions, bits) ==
    [r \in 1..Len(matrix) |->
        [c \in 1..Len(matrix[r]) |->
            IF yields_of(positions, Min(Len(positions), Len(bits)),
                         c - 1, r - 1) = {}
            THEN matrix[r][c]
            ELSE IF bits[CHOOSE k \in yields_of(positions,
                                         Min(Len(positions), Len(bits)),
                                         c - 1, r - 1) :
                             \A k2 \in yields_of(positions,
                                          Min(Len(positions), Len(bits)),
                                          c - 1, r - 1) : k2 <= k] # 0
            THEN DATA_BLACK
            ELSE DATA_WHITE] \o << >>] \o << >>

mark_bits(matrix, width, bits) ==
    CHOOSE marked \in
        {mark_bits_zipped(matrix, positions, stream) :
            positions \in {data_position_generator(matrix, width)},
            stream \in {bitarray_iter(bits)}} : TRUE

\* how often the generator yields each module
yield_counts(positions, width) ==
    [r \in 1..width |->
        [c \in 1..width |->
            Cardinality(yields_of(positions, Len(positions), c - 1, r - 1))]
        \o << >>] \o << >>

\* mask: a module changes colour once for every time it is yielded with
\* fn(y, x) == 0; counts is how often the generator, run on self.matrix,
\* yields each module
mask(counts, matrix, index) ==
    [r \in 1..Len(matrix) |->
        [c \in 1..Len(matrix[r]) |->
            IF counts[r][c] % 2 = 1 /\ mask_functions(index, r - 1, c - 1) = 0
            THEN (IF matrix[r][c] = DATA_WHITE THEN DATA_BLACK ELSE DATA_WHITE)
            ELSE matrix[r][c]] \o << >>] \o << >>

\* penalty: dark = 1, light = 0, and col(x)
dark == 1
light == 0
col_of(x) == IF x = DATA_BLACK \/ x = FORMAT_BLACK THEN dark ELSE light

\* penalty: colors[y][x] = col(matrix[x][y]), both indices from 0
colors_of(matrix, width) ==
    [y \in 1..width |-> [x \in 1..width |-> col_of(matrix[x][y])] \o << >>]
    \o << >>

\* what "last" holds in the second loop of condition one after "last = col":
\* the function col, which equals no colour
col_function == -7

\* condition one, first loop: the inner loop over one row from element i on;
\* the score is raised only when the colour changes
RECURSIVE penalty_row_loop(_, _, _, _, _)
penalty_row_loop(row, i, last, consecutive, penalty_score) ==
    IF i > Len(row) THEN penalty_score
    ELSE IF row[i] = last
    THEN penalty_row_loop(row, i + 1, row[i], consecutive + 1, penalty_score)
    ELSE penalty_row_loop(row, i + 1, row[i], 0,
             IF consecutive > 4 THEN penalty_score + consecutive - 2
             ELSE penalty_score)

\* condition one, second loop: the inner loop over column x from y on, which
\* ends every round with "last = col"
RECURSIVE penalty_column_loop(_, _, _, _, _, _)
penalty_column_loop(colors, x, y, last, consecutive, penalty_score) ==
    IF y > Len(colors) THEN penalty_score
    ELSE IF colors[y][x] = last
    THEN penalty_column_loop(colors, x, y + 1, col_function, consecutive + 1,
                             penalty_score)
    ELSE penalty_column_loop(colors, x, y + 1, col_function, 0,
             IF consecutive > 4 THEN penalty_score + consecutive - 2
             ELSE penalty_score)

\* the sum of a list of numbers
RECURSIVE sum(_)
sum(list) == IF Len(list) = 0 THEN 0 ELSE list[1] + sum(Tail(list))

penalty_one(colors, width) ==
    sum([y \in 1..width |-> penalty_row_loop(colors[y], 1, None, 0, 0)])
    + sum([x \in 1..width |-> penalty_column_loop(colors, x, 1, None, 0, 0)])

penalty_two(colors, width) ==
    3 * Cardinality({yx \in (1..(width - 1)) \X (1..(width - 1)) :
                        /\ colors[yx[1]][yx[2]] = colors[yx[1]][yx[2] + 1]
                        /\ colors[yx[1]][yx[2] + 1] = colors[yx[1] + 1][yx[2]]
                        /\ colors[yx[1] + 1][yx[2]] = colors[yx[1] + 1][yx[2] + 1]})

\* condition three
pattern == <<dark, light, dark, dark, dark, light, dark>>
\* all(x == light for x in row[i - 4:i]), for i >= 4
four_white(row, i) ==
    \A m \in (i - 4)..(Min(i, Len(row)) - 1) : row[m + 1] = light
\* all(z[0] == z[1] for z in zip(row[i:], pattern))
matches_pattern(row, i) ==
    \A m \in 0..(Min(Len(row) - i, Len(pattern)) - 1) :
        row[i + m + 1] = pattern[m + 1]

penalty_three(colors, width) ==
    40 * Cardinality({yi \in (1..width) \X (4..(width - 8)) :
                         /\ matches_pattern(colors[yi[1]], yi[2])
                         /\ \/ four_white(colors[yi[1]], yi[2])
                            \/ /\ yi[2] + 11 < width
                               /\ four_white(colors[yi[1]], yi[2] + 7)})

\* condition four: percentage = dark_modules // total
dark_modules_of(colors) ==
    sum([y \in 1..Len(colors) |->
            Cardinality({x \in 1..Len(colors[y]) : colors[y][x] = dark})])
penalty_four(colors, width) ==
    10 * Max(20 * (dark_modules_of(colors) \div (width * width)) - 10,
             20 * (dark_modules_of(colors) \div (width * width)) - 10 + 1)

penalty_of_colors(colors, width) ==
    penalty_one(colors, width) + penalty_two(colors, width)
        + penalty_three(colors, width) + penalty_four(colors, width)

penalty(matrix, width) ==
    CHOOSE score \in
        {penalty_of_colors(colors, width) :
            colors \in {colors_of(matrix, width)}} : TRUE

\* penalty: the value of penalty_score after condition one, two, three and
\* four; the last is the value returned
penalty_scores_of_colors(colors, width) ==
    <<penalty_one(colors, width),
      penalty_one(colors, width) + penalty_two(colors, width),
      penalty_one(colors, width) + penalty_two(colors, width)
          + penalty_three(colors, width),
      penalty_of_colors(colors, width)>>

penalty_scores(matrix, width) ==
    CHOOSE scores \in
        {penalty_scores_of_colors(colors, width) :
            colors \in {colors_of(matrix, width)}} : TRUE

\* optimal_mask: the mask with a wrong choice of the best score
optimal_mask_last(candidates, mask_index, best) ==
    [matrix |-> candidates[8].matrix, mask_index |-> 7,
     candidates |-> candidates]

\* optimal_mask: matrix_copy and penalty_score of one round
mask_candidate(counts, matrix, width, mask_index) ==
    CHOOSE candidate \in
        {[matrix |-> matrix_copy, penalty_score |-> penalty(matrix_copy, width)] :
            matrix_copy \in {mask(counts, matrix, mask_index)}} : TRUE

\* optimal_mask: the rounds from mask_index on; best holds best_matrix,
\* best_penalty_score and best_mask_index
RECURSIVE optimal_mask_loop(_, _, _)
optimal_mask_loop(candidates, mask_index, best) ==
    IF mask_index >= 8
    THEN [matrix |-> best.matrix, mask_index |-> best.mask_index,
          candidates |-> candidates]
    ELSE optimal_mask_loop(candidates, mask_index + 1,
             IF candidates[mask_index + 1].penalty_score < best.penalty_score
             THEN [matrix |-> candidates[mask_index + 1].matrix,
                   penalty_score |-> candidates[mask_index + 1].penalty_score,
                   mask_index |-> mask_index]
             ELSE best)

\* optimal_mask: the new self.matrix and the index returned, with the eight
\* copies and their scores; every round runs the generator on the unchanged
\* self.matrix, so its yields are counted once
optimal_mask_counted(counts, matrix, width) ==
    CHOOSE result \in
        {optimal_mask_loop(candidates, 0,
             [matrix |-> None, penalty_score |-> 1000000000,
              mask_index |-> None]) :
            candidates \in
                {[index \in 1..8 |->
                     mask_candidate(counts, matrix, width, index - 1)]
                 \o << >>}} : TRUE

yield_counts_of(matrix, width) ==
    CHOOSE counts \in
        {yield_counts(positions, width) :
            positions \in {data_position_generator(matrix, width)}} : TRUE

optimal_mask(matrix, width) ==
    CHOOSE result \in
        {optimal_mask_counted(counts, matrix, width) :
            counts \in {yield_counts_of(matrix, width)}} : TRUE

ec_level_code == [L |-> 1, M |-> 0, Q |-> 3, H |-> 2]

\* a << n
ShiftLeft(a, n) == a * Pow2(n)

format_string(ec_level, mask_index) ==
    Xor(Or(Or(ShiftLeft(ec_level_code[ec_level], 13), ShiftLeft(mask_index, 10)),
           modulo_gf2(Or(ShiftLeft(ec_level_code[ec_level], 13),
                         ShiftLeft(mask_index, 10)),
                      1335)),
        21522)

version_string(version) ==
    Or(ShiftLeft(version, 12), modulo_gf2(ShiftLeft(version, 12), 7973))

\* (value >> i) & 1
bit_of(value, i) == (value \div Pow2(i)) % 2

\* mark_format_string with the first copy only
format_bit_at_first(y, x, width) ==
    IF x = 8 /\ y \in 0..5 THEN y
    ELSE IF y = 7 /\ x = 8 THEN 6
    ELSE IF y = 8 /\ x = 8 THEN 7
    ELSE IF y = 8 /\ x = 7 THEN 8
    ELSE IF y = 8 /\ x \in 0..5 THEN 5 - x + 9
    ELSE None

\* mark_format_string: the bit of format_s that is written to module
\* matrix[y][x] (first or second copy), None for the other modules
format_bit_at(y, x, width) ==
    IF x = 8 /\ y \in 0..5 THEN y
    ELSE IF y = 8 /\ x \in (width - 6)..(width - 1) THEN width - 1 - x
    ELSE IF (y = 7 /\ x = 8) \/ (y = 8 /\ x = width - 7) THEN 6
    ELSE IF (y = 8 /\ x = 8) \/ (y = 8 /\ x = width - 8) THEN 7
    ELSE IF (y = 8 /\ x = 7) \/ (y = width - 7 /\ x = 8) THEN 8
    ELSE IF y = 8 /\ x \in 0..5 THEN 5 - x + 9
    ELSE IF x = 8 /\ y \in (width - 6)..(width - 1) THEN y - (width - 6) + 9
    ELSE None

\* mark_format_string, format_s being the format string: a module is set
\* to FORMAT_BLACK when its bit is 1 and left as it is otherwise
mark_format_bits(matrix, width, format_s) ==
    [r \in 1..Len(matrix) |->
        [c \in 1..Len(matrix[r]) |->
            IF format_bit_at(r - 1, c - 1, width) # None
               /\ bit_of(format_s, format_bit_at(r - 1, c - 1, width)) = 1
            THEN FORMAT_BLACK
            ELSE matrix[r][c]] \o << >>] \o << >>

mark_format_string(matrix, width, ec_level, mask_index) ==
    mark_format_bits(matrix, width, format_string(ec_level, mask_index))

\* mark_version_information with the bottom left area filled row by row
version_bit_at_rowwise(y, x, width) ==
    IF x \in 0..5 /\ y \in (width - 11)..(width - 9)
    THEN 6 * (y - (width - 11)) + x
    ELSE IF y \in 0..5 /\ x \in (width - 11)..(width - 9)
    THEN 3 * y + (x - (width - 11))
    ELSE None

\* mark_version_information: the bit_index of module matrix[y][x] in the
\* first loop (bottom left) or the second (top right), None elsewhere
version_bit_at(y, x, width) ==
    IF x \in 0..5 /\ y \in (width - 11)..(width - 9)
    THEN 3 * x + (y - (width - 11))
    ELSE IF y \in 0..5 /\ x \in (width - 11)..(width - 9)
    THEN 3 * y + (x - (width - 11))
    ELSE None

mark_version_information(matrix, width, version) ==
    IF version >= 7
    THEN [r \in 1..Len(matrix) |->
             [c \in 1..Len(matrix[r]) |->
                 IF version_bit_at(r - 1, c - 1, width) # None
                 THEN bit_of(version_string(version),
                             version_bit_at(r - 1, c - 1, width))
                 ELSE matrix[r][c]] \o << >>] \o << >>
    ELSE matrix

\* _image_bits: MARGIN_WIDTH lines of white modules, the lines of the
\* matrix, MARGIN_WIDTH lines again; every line between margins of
\* MARGIN_WIDTH white modules, a module being int(black)
image_lines(matrix) ==
    [n \in 1..MARGIN_WIDTH |-> [c \in 1..Len(matrix) |-> DATA_WHITE]]
    \o matrix
    \o [n \in 1..MARGIN_WIDTH |-> [c \in 1..Len(matrix) |-> DATA_WHITE]]

\* _image_bits with int(bit == DATA_BLACK) only
image_line_data_only(line) ==
    [n \in 1..MARGIN_WIDTH |-> DATA_WHITE]
    \o [c \in 1..Len(line) |-> IF line[c] = DATA_BLACK THEN 1 ELSE 0]
    \o [n \in 1..MARGIN_WIDTH |-> DATA_WHITE]

image_line(line) ==
    [n \in 1..MARGIN_WIDTH |-> DATA_WHITE]
    \o [c \in 1..Len(line) |->
           IF line[c] = DATA_BLACK \/ line[c] = FORMAT_BLACK THEN 1 ELSE 0]
    \o [n \in 1..MARGIN_WIDTH |-> DATA_WHITE]

image_bits_of(matrix) ==
    [n \in 1..Len(image_lines(matrix)) |-> image_line(image_lines(matrix)[n])]
    \o << >>

(***************************************************************************)
(* State.                                                                  *)
(*   gf, gf_op, gf_a, gf_b, gf_res: a GaloisField object, the last method  *)
(*     called on it, its arguments and what the call ended in.             *)
(*   rse, rs_op, rs_data, rs_sent, rs_word, rs_result: a                   *)
(*     ReedSolomonEncoder object, the last operation, the data block       *)
(*     encoded, the block as sent (data + correction symbols), the block   *)
(*     as received, and what the last call ended in.                       *)
(*   seg_op, seg_data, seg_len, seg_ec, seg_encoding, seg_bits, seg_info:  *)
(*     the last function of qrcode.py called, the content, content length, *)
(*     EC level, mode and bit length it was called with or returned, and   *)
(*     what version_info returned.                                         *)
(*   seg_char, seg_value, seg_out: the character encode_alnum_char was     *)
(*     called with, what it returned, and what encode returned.            *)
(*   qr_call, qr_op: the function of the QR code called and the last       *)
(*     function or method that ran.                                        *)
(*   qr_groups, qr_stream: the groups interleave_blocks was called with    *)
(*     and what it returned.                                               *)
(*   qr_data, qr_level, qr_mask, qr_version, qr_value: content, EC level,  *)
(*     mask index and version the call was made with, and the number       *)
(*     format_string or version_string returned (the exception of a        *)
(*     failed construction).                                               *)
(*   qr, qr_candidates, qr_image: the QRCode object, the eight masked      *)
(*     copies optimal_mask scored, and what image_bits returned.           *)
(*   rs_degree: the degree compute_generator or compute_generator_slow     *)
(*     was called with.                                                    *)
(*   ba, ba_op, ba_calls: a BigEndianBitArray object, the last method      *)
(*     called on it, and the (number, encode_len) of the extend calls made *)
(*     so far, in call order.                                              *)
(*   ba_index, ba_value: the index __getitem__ was called with and what    *)
(*     it returned.                                                        *)
(***************************************************************************)
VARIABLES gf, gf_op, gf_a, gf_b, gf_res,
          rse, rs_op, rs_data, rs_sent, rs_word, rs_result, rs_degree,
          seg_op, seg_data, seg_len, seg_ec, seg_encoding, seg_bits, seg_info,
          seg_char, seg_value, seg_out,
          qr_call, qr_op, qr_groups, qr_stream, qr_data, qr_level, qr_mask,
          qr_version, qr_value, qr, qr_candidates, qr_image,
          ba, ba_op, ba_calls, ba_index, ba_value

gfvars == <<gf, gf_op, gf_a, gf_b, gf_res>>
rsvars == <<rse, rs_op, rs_data, rs_sent, rs_word, rs_result, rs_degree>>
segvars == <<seg_op, seg_data, seg_len, seg_ec, seg_encoding, seg_bits,
             seg_info, seg_char, seg_value, seg_out>>
qrvars == <<qr_call, qr_op, qr_groups, qr_stream, qr_data, qr_level, qr_mask,
            qr_version, qr_value, qr, qr_candidates, qr_image>>
bavars == <<ba, ba_op, ba_calls, ba_index, ba_value>>
vars == <<gfvars, rsvars, segvars, qrvars, bavars>>

\* no object constructed yet
NoField == [primitive_poly |-> 0, element_count |-> 0,
            exp_table |-> << >>, log_table |-> << >>]
NoCoder == [gf |-> NoField, n |-> 0, k |-> 0, corrections_len |-> 0,
            generator |-> << >>]

InitGF == /\ gf = NoField
          /\ gf_op = "none"
          /\ gf_a = 0
          /\ gf_b = 0
          /\ gf_res = 0

InitRS == /\ rse = NoCoder
          /\ rs_op = "none"
          /\ rs_data = << >>
          /\ rs_sent = << >>
          /\ rs_word = << >>
          /\ rs_result = Ok(<< >>)
          /\ rs_degree = 0

InitSeg == /\ seg_op = "none"
           /\ seg_data = << >>
           /\ seg_len = 0
           /\ seg_ec = "Q"
           /\ seg_encoding = "None"
           /\ seg_bits = 0
           /\ seg_info = VersionInfoFail(None)
           /\ seg_char = 0
           /\ seg_value = 0
           /\ seg_out = EncodeFail(None)

\* no QRCode constructed yet
NoCode == [ec_level |-> "Q", bits |-> BigEndianBitArray(<< >>), version |-> 0,
           width |-> 0, matrix |-> << >>, mask_index |-> None]

InitQR == /\ qr_call = "none"
          /\ qr_op = "none"
          /\ qr_groups = << >>
          /\ qr_stream = Fail(None)
          /\ qr_data = << >>
          /\ qr_level = "Q"
          /\ qr_mask = 0
          /\ qr_version = 0
          /\ qr_value = 0
          /\ qr = NoCode
          /\ qr_candidates = << >>
          /\ qr_image = << >>

\* no BitArray constructed yet
InitBA == /\ ba = BigEndianBitArray(<< >>)
          /\ ba_op = "none"
          /\ ba_calls = << >>
          /\ ba_index = 0
          /\ ba_value = 0

Init == InitGF /\ InitRS /\ InitSeg /\ InitQR /\ InitBA

(***************************************************************************)
(* Bounds and input sets.                                                  *)
(***************************************************************************)
\* fields of degree up to MaxDegree, of the polynomials reedsolomon.py lists
MaxDegree == 8
Degrees == {d \in 1..MaxDegree : primitive_polynomials[d + 1] # 0}
PrimitivePolys == {primitive_polynomials[d + 1] : d \in Degrees}

\* operands of a field operation: every element, and for the second operand
\* of a binary operation 0, 1, 2 and the last element
Elements(field) == 0..field.element_count
SecondOperands(field) == {0, 1, 2, field.element_count}

(***************************************************************************)
(* GaloisField: construction and one action per method.                    *)
(***************************************************************************)
GFNew(primitive_poly) ==
    /\ gf_op = "none"
    /\ gf' = GaloisField(primitive_poly)
    /\ gf_op' = "new"
    /\ UNCHANGED <<gf_a, gf_b, gf_res>>
    /\ UNCHANGED <<rsvars, segvars, qrvars, bavars>>

\* one method call on the constructed field
GFCall(op, a, b, res) ==
    /\ gf_op = "new"
    /\ gf_op' = op
    /\ gf_a' = a
    /\ gf_b' = b
    /\ gf_res' = res
    /\ UNCHANGED gf
    /\ UNCHANGED <<rsvars, segvars, qrvars, bavars>>

GFMul(a, b) == GFCall("mul", a, b, mul(gf, a, b))
GFDiv(a, b) == GFCall("div", a, b, div(gf, a, b))
GFAdd(a, b) == GFCall("add", a, b, add(a, b))
GFExp(a) == GFCall("exp", a, 0, exp(gf, a))
GFLog(a) == GFCall("log", a, 0, log(gf, a))
GFInverse(a) == GFCall("inverse", a, 0, inverse(gf, a))

\* operands of poly_mul: lists of 1 to MaxPolyLen coefficients, all 1, all
\* the last element of the field, or rising from 1 in steps of 3
MaxPolyLen == 8
PolyOperands(field) ==
    {[m \in 1..len |-> 1] : len \in 1..MaxPolyLen}
    \cup {[m \in 1..len |-> field.element_count] : len \in 1..MaxPolyLen}
    \cup {[m \in 1..len |-> (3 * m - 2) % (field.element_count + 1)] :
              len \in 1..MaxPolyLen}

GFPolyMul(a, b) == GFCall("poly_mul", a, b, poly_mul(gf, a, b))

NextGF ==
    \/ \E p \in PrimitivePolys : GFNew(p)
    \/ \E a \in Elements(gf), b \in SecondOperands(gf) : GFMul(a, b)
    \/ \E a \in Elements(gf), b \in SecondOperands(gf) : GFDiv(a, b)
    \/ \E a \in Elements(gf), b \in SecondOperands(gf) : GFAdd(a, b)
    \/ \E a \in Elements(gf) : GFExp(a)
    \/ \E a \in Elements(gf) : GFLog(a)
    \/ \E a \in Elements(gf) : GFInverse(a)
    \/ \E a \in PolyOperands(gf), b \in PolyOperands(gf) : GFPolyMul(a, b)

SpecGF == Init /\ [][NextGF]_vars

(***************************************************************************)
(* ReedSolomonEncoder: construction, encode_block, the channel (symbols    *)
(* altered or erased between sender and receiver) and decode_block.        *)
(***************************************************************************)
\* short blocks: coders of 1 or 2 data symbols and up to MaxCorrections
\* correction symbols, of which the channel alters at most MaxAltered
DataLens == {1, 2}
MaxCorrections == 4
MaxAltered == 3
\* the long block: 1 data symbol and LongCorrections correction symbols over
\* GF(256); the channel alters its first symbols in a burst of up to MaxBurst
LongCorrections == 14
MaxBurst == 7
\* fields of the short coders: GF(16) and GF(256)
CoderPolys == {primitive_polynomials[5], primitive_polynomials[9]}
\* data symbols: 0 and the last element of the field
DataSymbols(coder) == {0, coder.gf.element_count}
\* an altered symbol differs from the sent one by one of these (xor)
Magnitudes == {1, 2}

\* positions (from 1) where the received block differs from the sent one
AlteredAt == {p \in 1..Len(rs_word) : rs_word[p] # rs_sent[p]}
ErasedAt == {p \in 1..Len(rs_word) : rs_word[p] < 0}

RSNew(k, n, primitive_poly) ==
    /\ rs_op = "none"
    /\ LET r == ReedSolomonEncoder(k, n, primitive_poly)
       IN  IF r.err = 0
           THEN /\ rse' = r.val
                /\ rs_op' = "new"
                /\ UNCHANGED rs_result
           ELSE /\ rs_op' = "new_failed"
                /\ rs_result' = r
                /\ UNCHANGED rse
    /\ UNCHANGED <<rs_data, rs_sent, rs_word, rs_degree>>
    /\ UNCHANGED <<gfvars, segvars, qrvars, bavars>>

\* encode_block(data) and the block handed to the channel: data + result
RSEncode(data) ==
    /\ rs_op = "new"
    /\ LET r == encode_block(rse, data)
       IN  /\ rs_result' = r
           /\ rs_data' = data
           /\ IF r.err = 0
              THEN /\ rs_op' = "encoded"
                   /\ rs_sent' = data \o r.val
                   /\ rs_word' = data \o r.val
              ELSE /\ rs_op' = "encode_failed"
                   /\ UNCHANGED <<rs_sent, rs_word>>
    /\ UNCHANGED <<rse, rs_degree>>
    /\ UNCHANGED <<gfvars, segvars, qrvars, bavars>>

\* the channel alters the symbol at position p (from 1) by magnitude m
RSAlter(p, m) ==
    /\ rs_op \in {"encoded", "altered"}
    /\ p \in 1..Len(rs_word)
    /\ p \notin AlteredAt
    /\ rs_word' = [rs_word EXCEPT ![p] = Xor(rs_word[p], m)]
    /\ rs_op' = "altered"
    /\ UNCHANGED <<rse, rs_data, rs_sent, rs_result, rs_degree>>
    /\ UNCHANGED <<gfvars, segvars, qrvars, bavars>>

\* the channel loses the symbol at position p: the receiver marks the
\* erasure by a negative symbol (decode_block tests decoded[i] < 0)
RSErase(p) ==
    /\ rs_op \in {"encoded", "erased"}
    /\ p \in 1..Len(rs_word)
    /\ p \notin ErasedAt
    /\ rs_word' = [rs_word EXCEPT ![p] = -1]
    /\ rs_op' = "erased"
    /\ UNCHANGED <<rse, rs_data, rs_sent, rs_result, rs_degree>>
    /\ UNCHANGED <<gfvars, segvars, qrvars, bavars>>

RSDecode ==
    /\ rs_op \in {"encoded", "altered", "erased"}
    /\ rs_result' = decode_block(rse, rs_word)
    /\ rs_op' = "decoded"
    /\ UNCHANGED <<rse, rs_data, rs_sent, rs_word, rs_degree>>
    /\ UNCHANGED <<gfvars, segvars, qrvars, bavars>>

\* compute_generator(degree) of the coder
RSComputeGenerator(degree) ==
    /\ rs_op = "new"
    /\ rs_op' = "compute_generator"
    /\ rs_degree' = degree
    /\ rs_result' = compute_generator(rse.gf, degree)
    /\ UNCHANGED <<rse, rs_data, rs_sent, rs_word>>
    /\ UNCHANGED <<gfvars, segvars, qrvars, bavars>>

\* compute_generator_slow(degree) of the coder
RSComputeGeneratorSlow(degree) ==
    /\ rs_op = "new"
    /\ rs_op' = "compute_generator_slow"
    /\ rs_degree' = degree
    /\ rs_result' = compute_generator_slow(rse.gf, degree)
    /\ UNCHANGED <<rse, rs_data, rs_sent, rs_word>>
    /\ UNCHANGED <<gfvars, segvars, qrvars, bavars>>

\* degrees compute_generator is called with: 0 to MaxGeneratorDegree
MaxGeneratorDegree == 16

\* data blocks of the right length, and of one symbol too many
DataBlocks(coder) ==
    UNION {[1..len -> DataSymbols(coder)] : len \in {coder.k, coder.k + 1}}

IsLong(coder) == coder.corrections_len = LongCorrections

NextRS ==
    \/ \E k \in DataLens, c \in 1..MaxCorrections, p \in CoderPolys :
           RSNew(k, k + c, p)
    \/ RSNew(1, 1 + LongCorrections, primitive_polynomials[9])
    \/ \E p \in CoderPolys : RSNew(1, element_count_of(p) + 1, p)
    \/ \E degree \in 0..MaxGeneratorDegree : RSComputeGenerator(degree)
    \/ \E degree \in 0..MaxGeneratorDegree : RSComputeGeneratorSlow(degree)
    \/ \E data \in DataBlocks(rse) : RSEncode(data)
    \/ \E p \in 1..rse.n, m \in Magnitudes :
           /\ ~IsLong(rse)
           /\ Cardinality(AlteredAt) < MaxAltered
           /\ RSAlter(p, m)
    \/ \E m \in Magnitudes :
           /\ IsLong(rse)
           /\ Cardinality(AlteredAt) < MaxBurst
           /\ RSAlter(Cardinality(AlteredAt) + 1, m)
    \/ \E p \in 1..rse.n :
           /\ ~IsLong(rse)
           /\ Cardinality(ErasedAt) <= rse.corrections_len
           /\ RSErase(p)
    \/ RSDecode

SpecRS == Init /\ [][NextRS]_vars

(***************************************************************************)
(* qrcode.py: one call of select_encoding, encoding_length or version_info.*)
(***************************************************************************)
\* contents of up to MaxLen characters
MaxLen == 2
\* the characters 0 9 A : a, superscript two, Arabic-Indic three, euro sign
Chars == {48, 57, 65, 58, 97, 178, 1635, 8364}
Contents == UNION {[1..len -> Chars] : len \in 0..MaxLen}
\* content lengths passed to encoding_length
MaxDataLength == 12
\* the modes of the length tables, and what select_encoding returns when no
\* mode fits
Encodings == DOMAIN length_bitlen_v40
EncodingsOrNone == Encodings \cup {"None"}
ECLevels == DOMAIN ec_level_index
\* payload bit lengths: up to MaxMargin bits below a capacity of the table
MaxMargin == 21
BitLength(v, e, d) == capacities[v][e] - d

\* contents passed to encode: the short contents, HELLO WORLD, and runs of
\* up to MaxRun times 7, A or a followed by nothing, by 9 or by a colon
MaxRun == 18
RunChars == {55, 65, 97}
RunTails == {<< >>, <<57>>, <<58>>}
HelloWorld == <<72, 69, 76, 76, 79, 32, 87, 79, 82, 76, 68>>
EncodeContents ==
    Contents \cup {HelloWorld}
             \cup {Repeat(c, len) \o t :
                       c \in RunChars, len \in 0..MaxRun, t \in RunTails}
\* characters passed to encode_alnum_char: ASCII and the characters of Chars
AlnumChars == (0..127) \cup Chars

\* the arguments of the call: a content, or a mode and a content length, or
\* a payload bit length, an EC level and a mode, or a content and an EC
\* level, or a character
InitSegCall ==
    /\ seg_op = "none"
    /\ seg_info = VersionInfoFail(None)
    /\ seg_value = 0
    /\ seg_out = EncodeFail(None)
    /\ \/ /\ seg_data \in Contents
          /\ seg_len = 0
          /\ seg_encoding = "None"
          /\ seg_ec = "Q"
          /\ seg_bits = 0
          /\ seg_char = 0
       \/ /\ seg_data = << >>
          /\ seg_len \in 0..MaxDataLength
          /\ seg_encoding \in EncodingsOrNone
          /\ seg_ec = "Q"
          /\ seg_bits = 0
          /\ seg_char = 0
       \/ /\ seg_data = << >>
          /\ seg_len = 0
          /\ seg_encoding \in EncodingsOrNone
          /\ seg_ec \in ECLevels
          /\ \E v \in 1..Len(capacities), e \in 1..4, d \in 0..MaxMargin :
                 seg_bits = BitLength(v, e, d)
          /\ seg_char = 0
       \/ /\ seg_data \in EncodeContents
          /\ seg_len = 0
          /\ seg_encoding = "None"
          /\ seg_ec \in ECLevels
          /\ seg_bits = 0
          /\ seg_char = 0
       \/ /\ seg_data = << >>
          /\ seg_len = 0
          /\ seg_encoding = "None"
          /\ seg_ec = "Q"
          /\ seg_bits = 0
          /\ seg_char \in AlnumChars

\* encoding = select_encoding(data)
SegSelect ==
    /\ seg_op = "none"
    /\ seg_op' = "select_encoding"
    /\ seg_encoding' = select_encoding(seg_data)
    /\ UNCHANGED <<seg_data, seg_len, seg_ec, seg_bits, seg_info>>
    /\ UNCHANGED <<seg_char, seg_value, seg_out>>
    /\ UNCHANGED <<gfvars, rsvars, qrvars, bavars>>

\* enc_length = encoding_length(encoding, length)
SegEncodingLength ==
    /\ seg_op = "none"
    /\ seg_op' = "encoding_length"
    /\ seg_bits' = encoding_length(seg_encoding, seg_len)
    /\ UNCHANGED <<seg_data, seg_len, seg_ec, seg_encoding, seg_info>>
    /\ UNCHANGED <<seg_char, seg_value, seg_out>>
    /\ UNCHANGED <<gfvars, rsvars, qrvars, bavars>>

\* version_info(enc_length, ec_level, encoding)
SegVersionInfo ==
    /\ seg_op = "none"
    /\ seg_op' = "version_info"
    /\ seg_info' = version_info(seg_bits, seg_ec, seg_encoding)
    /\ UNCHANGED <<seg_data, seg_len, seg_ec, seg_encoding, seg_bits>>
    /\ UNCHANGED <<seg_char, seg_value, seg_out>>
    /\ UNCHANGED <<gfvars, rsvars, qrvars, bavars>>

\* encode_alnum_char(c)
SegAlnumChar ==
    /\ seg_op = "none"
    /\ seg_op' = "encode_alnum_char"
    /\ seg_value' = encode_alnum_char(seg_char)
    /\ UNCHANGED <<seg_data, seg_len, seg_ec, seg_encoding, seg_bits, seg_info>>
    /\ UNCHANGED <<seg_char, seg_out>>
    /\ UNCHANGED <<gfvars, rsvars, qrvars, bavars>>

\* encode(data, ec_level)
SegEncode ==
    /\ seg_op = "none"
    /\ seg_op' = "encode"
    /\ seg_out' = encode(seg_data, seg_ec)
    /\ UNCHANGED <<seg_data, seg_len, seg_ec, seg_encoding, seg_bits, seg_info>>
    /\ UNCHANGED <<seg_char, seg_value>>
    /\ UNCHANGED <<gfvars, rsvars, qrvars, bavars>>

NextSeg ==
    \/ SegSelect
    \/ SegEncodingLength
    \/ SegVersionInfo
    \/ SegAlnumChar
    \/ SegEncode

InitCall == InitGF /\ InitRS /\ InitSegCall /\ InitQR /\ InitBA

SpecSeg == InitCall /\ [][NextSeg]_vars

(***************************************************************************)
(* SpecQR: the functions of qrcode.py behind the segment encoding, called  *)
(* on their own, and the construction of a QRCode step by step.            *)
(***************************************************************************)
\* blocks of up to MaxBlockLen symbols, of the symbols 0 and 255
MaxBlockLen == 3
BlockSymbols == {0, 255}
Blocks == UNION {[1..len -> BlockSymbols] : len \in 0..MaxBlockLen}

\* the groups of _unit_test: two blocks of 15 and two of 16 symbols
group1 == << <<67, 85, 70, 134, 87, 38, 85, 194, 119, 50, 6, 18, 6, 103, 38>>,
             <<246, 246, 66, 7, 118, 134, 242, 7, 38, 86, 22, 198, 199, 146, 6>> >>
group2 == << <<182, 230, 247, 119, 50, 7, 118, 134, 87, 38, 82, 6, 134, 151, 50, 7>>,
             <<70, 247, 118, 86, 194, 6, 151, 50, 16, 236, 17, 236, 17, 236, 17, 236>> >>

\* groups passed to interleave_blocks: none, a group without blocks, a group
\* of two blocks before a group of one, and the groups of _unit_test
GroupsInputs ==
    {<< >>, << << >> >>, <<group1, group2>>}
        \cup {<< <<b1, b2>>, <<b3>> >> : b1 \in Blocks, b2 \in Blocks, b3 \in Blocks}

\* mask indices and versions passed to format_string and version_string
MaskIndices == 0..7
Versions == 1..Len(capacities)

\* contents a QRCode is made of: nothing, a digit, a lower-case letter,
\* HELLO WORLD, a run of ShortRun letters A (alignment pattern, version 2)
\* at every EC level or none; a run of LongRun letters A at level H
\* (version 7, version information); a character outside Latin-1
ShortRun == 20
LongRun == 90
QRContents == {<< >>, <<49>>, <<97>>, HelloWorld, Repeat(65, ShortRun)}
QRLevels == ECLevels \cup {"None"}
QRInputs ==
    (QRContents \X QRLevels)
        \cup {<<Repeat(65, LongRun), "H">>, <<<<8364>>, "Q">>}

\* matrices passed to penalty, of a version 1 symbol: a chessboard of data
\* modules in which one row or one column (the first or the middle one) is
\* replaced by a line, and matrices whose first rows are black
PenaltyWidth == 17 + 4 * 1
LongestRun == 7
Chessboard(r, c) == IF (r + c) % 2 = 0 THEN DATA_BLACK ELSE DATA_WHITE
\* a line of alternating modules with a run of one colour from start on
RunLine(start, length, color_code) ==
    [c \in 1..PenaltyWidth |->
        IF c \in start..(start + length - 1) THEN color_code
        ELSE Chessboard(1, c)]
RunLines ==
    {RunLine(start, length, color_code) :
        start \in {1, 8}, length \in 5..LongestRun,
        color_code \in {DATA_BLACK, DATA_WHITE}}
    \cup {RunLine(PenaltyWidth - length + 1, length, color_code) :
              length \in 5..LongestRun, color_code \in {DATA_BLACK, DATA_WHITE}}
\* a line of black modules with dark-light-dark-dark-dark-light-dark from
\* start on and 4 white modules before it or after it
FinderLine(start, before) ==
    [c \in 1..PenaltyWidth |->
        IF c \in {start + 1, start + 5} THEN DATA_WHITE
        ELSE IF before /\ c \in (start - 4)..(start - 1) THEN DATA_WHITE
        ELSE IF ~before /\ c \in (start + 7)..(start + 10) THEN DATA_WHITE
        ELSE DATA_BLACK]
FinderLines ==
    {FinderLine(start, TRUE) : start \in {5, 9, 15}}
    \cup {FinderLine(start, FALSE) : start \in {1, 4, 9, 11}}
LineInRow(line, at) ==
    [r \in 1..PenaltyWidth |->
        [c \in 1..PenaltyWidth |->
            IF r = at THEN line[c] ELSE Chessboard(r, c)]]
LineInColumn(line, at) ==
    [r \in 1..PenaltyWidth |->
        [c \in 1..PenaltyWidth |->
            IF c = at THEN line[r] ELSE Chessboard(r, c)]]
BlackRows(count, more) ==
    [r \in 1..PenaltyWidth |->
        [c \in 1..PenaltyWidth |->
            IF r <= count \/ (r = count + 1 /\ c <= more)
            THEN DATA_BLACK ELSE DATA_WHITE]]
PenaltyMatrices ==
    {LineInRow(line, at) : line \in RunLines \cup FinderLines, at \in {1, 11}}
    \cup {LineInColumn(line, at) : line \in RunLines \cup FinderLines, at \in {1, 11}}
    \cup {BlackRows(count, more) : count \in {0, 4, 10, 12, 20}, more \in {0, 11, 21}}
    \cup {LineInRow([c \in 1..PenaltyWidth |-> Chessboard(1, c)], 1)}

\* the call made: interleave_blocks(groups), format_string(ec_level, mask),
\* version_string(version) or QRCode.image_bits(data, ec_level)
InitQRCall ==
    /\ qr_op = "none"
    /\ qr_stream = Fail(None)
    /\ qr_value = 0
    /\ qr_candidates = << >>
    /\ qr_image = << >>
    /\ \/ /\ qr_call = "interleave_blocks"
          /\ qr_groups \in GroupsInputs
          /\ qr_data = << >>
          /\ qr_level = "Q"
          /\ qr_mask = 0
          /\ qr_version = 0
          /\ qr = NoCode
       \/ /\ qr_call = "format_string"
          /\ qr_groups = << >>
          /\ qr_data = << >>
          /\ qr_level \in ECLevels
          /\ qr_mask \in MaskIndices
          /\ qr_version = 0
          /\ qr = NoCode
       \/ /\ qr_call = "version_string"
          /\ qr_groups = << >>
          /\ qr_data = << >>
          /\ qr_level = "Q"
          /\ qr_mask = 0
          /\ qr_version \in Versions
          /\ qr = NoCode
       \/ /\ qr_call = "image_bits"
          /\ qr_groups = << >>
          /\ \E input \in QRInputs : qr_data = input[1] /\ qr_level = input[2]
          /\ qr_mask = 0
          /\ qr_version = 0
          /\ qr = NoCode
       \/ /\ qr_call = "penalty"
          /\ qr_groups = << >>
          /\ qr_data = << >>
          /\ qr_level = "Q"
          /\ qr_mask = 0
          /\ qr_version = 0
          /\ \E matrix \in PenaltyMatrices :
                 qr = [NoCode EXCEPT !.version = 1, !.width = PenaltyWidth,
                                     !.matrix = matrix]

\* QRCode.penalty(matrix) on a version 1 object: penalty_score after each
\* of the four conditions
QRPenalty ==
    /\ qr_call = "penalty"
    /\ qr_op = "none"
    /\ qr_op' = "penalty"
    /\ qr_value' = penalty_scores(qr.matrix, qr.width)
    /\ UNCHANGED <<qr_call, qr_groups, qr_stream, qr_data, qr_level, qr_mask>>
    /\ UNCHANGED <<qr_version, qr, qr_candidates, qr_image>>
    /\ UNCHANGED <<gfvars, rsvars, segvars, bavars>>

\* interleave_blocks(groups)
QRInterleave ==
    /\ qr_call = "interleave_blocks"
    /\ qr_op = "none"
    /\ qr_op' = "interleave_blocks"
    /\ qr_stream' = interleave_blocks(qr_groups)
    /\ UNCHANGED <<qr_call, qr_groups, qr_data, qr_level, qr_mask, qr_version>>
    /\ UNCHANGED <<qr_value, qr, qr_candidates, qr_image>>
    /\ UNCHANGED <<gfvars, rsvars, segvars, bavars>>

\* format_string(ec_level, mask)
QRFormatString ==
    /\ qr_call = "format_string"
    /\ qr_op = "none"
    /\ qr_op' = "format_string"
    /\ qr_value' = format_string(qr_level, qr_mask)
    /\ UNCHANGED <<qr_call, qr_groups, qr_stream, qr_data, qr_level, qr_mask>>
    /\ UNCHANGED <<qr_version, qr, qr_candidates, qr_image>>
    /\ UNCHANGED <<gfvars, rsvars, segvars, bavars>>

\* version_string(version)
QRVersionString ==
    /\ qr_call = "version_string"
    /\ qr_op = "none"
    /\ qr_op' = "version_string"
    /\ qr_value' = version_string(qr_version)
    /\ UNCHANGED <<qr_call, qr_groups, qr_stream, qr_data, qr_level, qr_mask>>
    /\ UNCHANGED <<qr_version, qr, qr_candidates, qr_image>>
    /\ UNCHANGED <<gfvars, rsvars, segvars, bavars>>

\* QRCode.__init__ up to the white matrix: ec_level None stands for Q; an
\* exception of qr_bits ends the construction
QRNew ==
    /\ qr_call = "image_bits"
    /\ qr_op = "none"
    /\ \E ec_level \in {IF qr_level = "None" THEN "Q" ELSE qr_level} :
       \E made \in {qr_bits(qr_data, ec_level)} :
           IF made.err = 0
           THEN /\ qr_op' = "qr_bits"
                /\ qr' = [ec_level |-> ec_level,
                          bits |-> made.bits,
                          version |-> made.version,
                          width |-> 17 + 4 * made.version,
                          matrix |-> [j \in 1..(17 + 4 * made.version) |->
                                         [i \in 1..(17 + 4 * made.version) |->
                                             DATA_WHITE]],
                          mask_index |-> None]
                /\ UNCHANGED qr_value
           ELSE /\ qr_op' = "failed"
                /\ qr_value' = made.err
                /\ UNCHANGED qr
    /\ UNCHANGED <<qr_call, qr_groups, qr_stream, qr_data, qr_level, qr_mask>>
    /\ UNCHANGED <<qr_version, qr_candidates, qr_image>>
    /\ UNCHANGED <<gfvars, rsvars, segvars, bavars>>

\* self.mark_finder_patterns()
QRMarkFinderPatterns ==
    /\ qr_op = "qr_bits"
    /\ qr_op' = "mark_finder_patterns"
    /\ \E matrix \in {mark_finder_patterns(qr.matrix, qr.width)} :
           qr' = [qr EXCEPT !.matrix = matrix]
    /\ UNCHANGED <<qr_call, qr_groups, qr_stream, qr_data, qr_level, qr_mask>>
    /\ UNCHANGED <<qr_version, qr_value, qr_candidates, qr_image>>
    /\ UNCHANGED <<gfvars, rsvars, segvars, bavars>>

\* self.mark_timing_pattern()
QRMarkTimingPattern ==
    /\ qr_op = "mark_finder_patterns"
    /\ qr_op' = "mark_timing_pattern"
    /\ \E matrix \in {mark_timing_pattern(qr.matrix, qr.width)} :
           qr' = [qr EXCEPT !.matrix = matrix]
    /\ UNCHANGED <<qr_call, qr_groups, qr_stream, qr_data, qr_level, qr_mask>>
    /\ UNCHANGED <<qr_version, qr_value, qr_candidates, qr_image>>
    /\ UNCHANGED <<gfvars, rsvars, segvars, bavars>>

\* self.mark_alignment_patterns()
QRMarkAlignmentPatterns ==
    /\ qr_op = "mark_timing_pattern"
    /\ qr_op' = "mark_alignment_patterns"
    /\ \E matrix \in {mark_alignment_patterns(qr.matrix, qr.version)} :
           qr' = [qr EXCEPT !.matrix = matrix]
    /\ UNCHANGED <<qr_call, qr_groups, qr_stream, qr_data, qr_level, qr_mask>>
    /\ UNCHANGED <<qr_version, qr_value, qr_candidates, qr_image>>
    /\ UNCHANGED <<gfvars, rsvars, segvars, bavars>>

\* self.mark_dark_module()
QRMarkDarkModule ==
    /\ qr_op = "mark_alignment_patterns"
    /\ qr_op' = "mark_dark_module"
    /\ \E matrix \in {mark_dark_module(qr.matrix)} :
           qr' = [qr EXCEPT !.matrix = matrix]
    /\ UNCHANGED <<qr_call, qr_groups, qr_stream, qr_data, qr_level, qr_mask>>
    /\ UNCHANGED <<qr_version, qr_value, qr_candidates, qr_image>>
    /\ UNCHANGED <<gfvars, rsvars, segvars, bavars>>

\* self.reserve_format_information_area()
QRReserveFormat ==
    /\ qr_op = "mark_dark_module"
    /\ qr_op' = "reserve_format_information_area"
    /\ \E matrix \in {reserve_format_information_area(qr.matrix)} :
           qr' = [qr EXCEPT !.matrix = matrix]
    /\ UNCHANGED <<qr_call, qr_groups, qr_stream, qr_data, qr_level, qr_mask>>
    /\ UNCHANGED <<qr_version, qr_value, qr_candidates, qr_image>>
    /\ UNCHANGED <<gfvars, rsvars, segvars, bavars>>

\* self.reserve_version_information_area()
QRReserveVersion ==
    /\ qr_op = "reserve_format_information_area"
    /\ qr_op' = "reserve_version_information_area"
    /\ \E matrix \in {reserve_version_information_area(qr.matrix, qr.version)} :
           qr' = [qr EXCEPT !.matrix = matrix]
    /\ UNCHANGED <<qr_call, qr_groups, qr_stream, qr_data, qr_level, qr_mask>>
    /\ UNCHANGED <<qr_version, qr_value, qr_candidates, qr_image>>
    /\ UNCHANGED <<gfvars, rsvars, segvars, bavars>>

\* self.mark_bits()
QRMarkBits ==
    /\ qr_call = "image_bits"
    /\ qr_op = "reserve_version_information_area"
    /\ qr_op' = "mark_bits"
    /\ \E matrix \in {mark_bits(qr.matrix, qr.width, qr.bits)} :
           qr' = [qr EXCEPT !.matrix = matrix]
    /\ UNCHANGED <<qr_call, qr_groups, qr_stream, qr_data, qr_level, qr_mask>>
    /\ UNCHANGED <<qr_version, qr_value, qr_candidates, qr_image>>
    /\ UNCHANGED <<gfvars, rsvars, segvars, bavars>>

\* self.mask_index = self.optimal_mask()
QROptimalMask ==
    /\ qr_op = "mark_bits"
    /\ qr_op' = "optimal_mask"
    /\ \E result \in {optimal_mask(qr.matrix, qr.width)} :
           /\ qr' = [qr EXCEPT !.matrix = result.matrix,
                               !.mask_index = result.mask_index]
           /\ qr_candidates' = result.candidates
    /\ UNCHANGED <<qr_call, qr_groups, qr_stream, qr_data, qr_level, qr_mask>>
    /\ UNCHANGED <<qr_version, qr_value, qr_image>>
    /\ UNCHANGED <<gfvars, rsvars, segvars, bavars>>

\* self.mark_format_string()
QRMarkFormatString ==
    /\ qr_op = "optimal_mask"
    /\ qr_op' = "mark_format_string"
    /\ \E matrix \in {mark_format_string(qr.matrix, qr.width, qr.ec_level, qr.mask_index)} :
           qr' = [qr EXCEPT !.matrix = matrix]
    /\ UNCHANGED <<qr_call, qr_groups, qr_stream, qr_data, qr_level, qr_mask>>
    /\ UNCHANGED <<qr_version, qr_value, qr_candidates, qr_image>>
    /\ UNCHANGED <<gfvars, rsvars, segvars, bavars>>

\* self.mark_version_information()
QRMarkVersionInformation ==
    /\ qr_op = "mark_format_string"
    /\ qr_op' = "mark_version_information"
    /\ \E matrix \in {mark_version_information(qr.matrix, qr.width, qr.version)} :
           qr' = [qr EXCEPT !.matrix = matrix]
    /\ UNCHANGED <<qr_call, qr_groups, qr_stream, qr_data, qr_level, qr_mask>>
    /\ UNCHANGED <<qr_version, qr_value, qr_candidates, qr_image>>
    /\ UNCHANGED <<gfvars, rsvars, segvars, bavars>>

\* QRCode.image_bits: qr._image_bits() of the QRCode made
QRImageBits ==
    /\ qr_op = "mark_version_information"
    /\ qr_op' = "image_bits"
    /\ qr_image' = image_bits_of(qr.matrix)
    /\ UNCHANGED <<qr_call, qr_groups, qr_stream, qr_data, qr_level, qr_mask>>
    /\ UNCHANGED <<qr_version, qr_value, qr, qr_candidates>>
    /\ UNCHANGED <<gfvars, rsvars, segvars, bavars>>

NextQR ==
    \/ QRInterleave
    \/ QRFormatString
    \/ QRVersionString
    \/ QRNew
    \/ QRMarkFinderPatterns
    \/ QRMarkTimingPattern
    \/ QRMarkAlignmentPatterns
    \/ QRMarkDarkModule
    \/ QRReserveFormat
    \/ QRReserveVersion
    \/ QRMarkBits
    \/ QROptimalMask
    \/ QRMarkFormatString
    \/ QRMarkVersionInformation
    \/ QRImageBits
    \/ QRPenalty

InitQRObject == InitGF /\ InitRS /\ InitSeg /\ InitQRCall /\ InitBA

SpecQR == InitQRObject /\ [][NextQR]_vars

\* the call made: data_position_generator() of the QRCode of a version,
\* after the patterns are marked and the areas reserved
InitQRPlacement ==
    /\ qr_call = "data_position_generator"
    /\ qr_op = "none"
    /\ qr_groups = << >>
    /\ qr_stream = Fail(None)
    /\ qr_data = << >>
    /\ qr_level = "Q"
    /\ qr_mask = 0
    /\ qr_version \in Versions
    /\ qr_value = 0
    /\ qr = NoCode
    /\ qr_candidates = << >>
    /\ qr_image = << >>

\* QRCode.__init__ up to the white matrix, for a content whose version is
\* qr_version: the methods up to data_position_generator read version, width
\* and matrix only, bits stay out of the state
QRNewOfVersion ==
    /\ qr_call = "data_position_generator"
    /\ qr_op = "none"
    /\ qr_op' = "qr_bits"
    /\ qr' = [NoCode EXCEPT !.version = qr_version,
                            !.width = 17 + 4 * qr_version,
                            !.matrix = [j \in 1..(17 + 4 * qr_version) |->
                                           [i \in 1..(17 + 4 * qr_version) |->
                                               DATA_WHITE]]]
    /\ UNCHANGED <<qr_call, qr_groups, qr_stream, qr_data, qr_level, qr_mask>>
    /\ UNCHANGED <<qr_version, qr_value, qr_candidates, qr_image>>
    /\ UNCHANGED <<gfvars, rsvars, segvars, bavars>>

\* list(self.data_position_generator()) where mark_bits starts
QRDataPositions ==
    /\ qr_call = "data_position_generator"
    /\ qr_op = "reserve_version_information_area"
    /\ qr_op' = "data_position_generator"
    /\ qr_value' = data_position_generator(qr.matrix, qr.width)
    /\ UNCHANGED <<qr_call, qr_groups, qr_stream, qr_data, qr_level, qr_mask>>
    /\ UNCHANGED <<qr_version, qr, qr_candidates, qr_image>>
    /\ UNCHANGED <<gfvars, rsvars, segvars, bavars>>

NextQRPlacement ==
    \/ QRNewOfVersion
    \/ QRMarkFinderPatterns
    \/ QRMarkTimingPattern
    \/ QRMarkAlignmentPatterns
    \/ QRMarkDarkModule
    \/ QRReserveFormat
    \/ QRReserveVersion
    \/ QRDataPositions

InitPlacement == InitGF /\ InitRS /\ InitSeg /\ InitQRPlacement /\ InitBA

SpecPlacement == InitPlacement /\ [][NextQRPlacement]_vars

(***************************************************************************)
(* SpecBits: a BigEndianBitArray, extended call after call and indexed.    *)
(***************************************************************************)
\* up to MaxCalls calls of extend, with the field widths of Widths: one
\* bit, the 4 of a mode indicator, the 11 of an alphanumeric pair; the numbers 0, the largest one and the alternating
\* pattern 0101.. of the width
MaxCalls == 3
Widths == {1, 4, 11}
Numbers(w) == {0, Pow2(w) - 1, Pow2(w) \div 3}

\* BitArray()
BANew ==
    /\ ba_op = "none"
    /\ ba_op' = "new"
    /\ ba' = BigEndianBitArray(<< >>)
    /\ UNCHANGED <<ba_calls, ba_index, ba_value>>
    /\ UNCHANGED <<gfvars, rsvars, segvars, qrvars>>

\* ba.extend(number, encode_len)
BAExtend(number, encode_len) ==
    /\ ba_op \in {"new", "extend"}
    /\ Len(ba_calls) < MaxCalls
    /\ ba_op' = "extend"
    /\ ba' = extend(ba, number, encode_len)
    /\ ba_calls' = Append(ba_calls, <<number, encode_len>>)
    /\ UNCHANGED <<ba_index, ba_value>>
    /\ UNCHANGED <<gfvars, rsvars, segvars, qrvars>>

\* ba[item]
BAGetItem(item) ==
    /\ ba_op = "extend"
    /\ ba_op' = "getitem"
    /\ ba_index' = item
    /\ ba_value' = getitem(ba, item)
    /\ UNCHANGED <<ba, ba_calls>>
    /\ UNCHANGED <<gfvars, rsvars, segvars, qrvars>>

NextBits ==
    \/ BANew
    \/ \E encode_len \in Widths : \E number \in Numbers(encode_len) :
           BAExtend(number, encode_len)
    \/ \E item \in (0 - 1)..bits_len(ba) : BAGetItem(item)

SpecBits == Init /\ [][NextBits]_vars

(***************************************************************************)
(* Properties.                                                             *)
(***************************************************************************)
\* the number of symbol errors a coder can correct: floor((n - k) / 2)
Budget(coder) == coder.corrections_len \div 2

\* decode_block has been called on a block with altered but no erased symbols
DecodedAltered == rs_op = "decoded" /\ ErasedAt = {}

\* decode_block returned the original data
Recovered == rs_result.err = 0 /\ rs_result.val = rs_data

\* the number of positions where two blocks of equal length differ
Distance(a, b) == Cardinality({p \in 1..Len(a) : a[p] # b[p]})

\* the received polynomial evaluated at alpha^0 .. alpha^(n-k-1)
Evaluations(coder, word) ==
    [m \in 1..coder.corrections_len |->
        poly_eval(coder.gf, word, coder.gf.exp_table[m])]

AllZero(list) == \A m \in 1..Len(list) : list[m] = 0

\* C1: over GF(256), decode_block of an encoded block with at most
\* floor((n-k)/2) symbols altered returns the original k symbols.
Cex_C1_RoundTrip ==
    (/\ DecodedAltered
     /\ rse.gf.primitive_poly = 285
     /\ Cardinality(AlteredAt) <= Budget(rse))
    => Recovered

\* C2 as claimed: with more than floor((n-k)/2) symbols altered decode_block
\* reports failure.
Cex_C2_FailsBeyondBudget ==
    (DecodedAltered /\ Cardinality(AlteredAt) > Budget(rse))
    => rs_result.err # 0

\* C2 as amended: with more than floor((n-k)/2) symbols altered decode_block
\* reports failure or returns the data of a block that is within
\* floor((n-k)/2) symbols of the received one.
Thm_C2_FailsOrNearestCodeword ==
    (DecodedAltered /\ Cardinality(AlteredAt) > Budget(rse))
    => \/ rs_result.err # 0
       \/ /\ Len(rs_result.val) = rse.k
          /\ Distance(rs_result.val \o encode_block(rse, rs_result.val).val,
                      rs_word) <= Budget(rse)

\* more symbols altered than the budget, and a block returned that is not
\* the original one
Wit_C2_Miscorrected ==
    /\ DecodedAltered
    /\ Cardinality(AlteredAt) > Budget(rse)
    /\ rs_result.err = 0
    /\ rs_result.val # rs_data

\* C3: encode_block returns n-k symbols and data followed by them evaluates
\* to 0 at alpha^0 .. alpha^(n-k-1); with 1 to n-k symbols altered some
\* evaluation is nonzero.
Thm_C3_Systematic ==
    /\ rs_op = "encoded"
         => /\ Len(rs_result.val) = rse.n - rse.k
            /\ rs_sent = rs_data \o rs_result.val
            /\ AllZero(Evaluations(rse, rs_sent))
            /\ AllZero(syndromes(rse, rs_sent))
    /\ (rs_op = "altered" /\ Cardinality(AlteredAt) \in 1..(rse.n - rse.k))
         => /\ ~AllZero(Evaluations(rse, rs_word))
            /\ ~AllZero(syndromes(rse, rs_word))

\* as many symbols altered as there are correction symbols
Wit_C3_AlteredFully ==
    /\ rs_op = "altered"
    /\ rse.k = 2
    /\ rse.n - rse.k = 3
    /\ Cardinality(AlteredAt) = 3
    /\ ~AllZero(Evaluations(rse, rs_word))

\* C4: over GF(16), decode_block of an encoded block with at most
\* floor((n-k)/2) symbols altered returns the original k symbols.
Cex_C4_RoundTripGF16 ==
    (/\ DecodedAltered
     /\ rse.gf.primitive_poly = 19
     /\ Cardinality(AlteredAt) <= Budget(rse))
    => Recovered

\* C5: decode_block returns the first k symbols of an n-symbol word with
\* all-zero syndromes, or it returns nothing.
Thm_C5_VerifiedOrNothing ==
    rs_op = "decoded"
    => \/ /\ rs_result.err = 0
          /\ Len(rs_result.word) = rse.n
          /\ rs_result.val = SubSeq(rs_result.word, 1, rse.k)
          /\ AllZero(Evaluations(rse, rs_result.word))
       \/ /\ rs_result.err # 0
          /\ rs_result.val = << >>

\* a block that was corrected (it differs from the received one) and returned
Wit_C5_Corrected ==
    /\ rs_op = "decoded"
    /\ rs_result.err = 0
    /\ rs_result.word # rs_word
    /\ Cardinality(AlteredAt) = 2

\* C6: decode_block fails when more than n-k symbols are erased, and returns
\* the original k symbols when at most n-k symbols are erased and no other
\* symbol is wrong.
Cex_C6_Erasures ==
    (rs_op = "decoded" /\ ErasedAt # {})
    => IF Cardinality(ErasedAt) > rse.corrections_len
       THEN rs_result.err # 0
       ELSE Recovered

\* C7: for every nonzero x, exp(log(x)) = x and mul(x, inverse(x)) = 1.
Thm_C7_FieldInvariant ==
    /\ (gf_op = "log" /\ gf_a # 0) => exp(gf, gf_res) = gf_a
    /\ (gf_op = "inverse" /\ gf_a # 0) => mul(gf, gf_a, gf_res) = 1

\* the inverse of the last element of GF(256)
Wit_C7_LastElement ==
    /\ gf_op = "inverse"
    /\ gf.element_count = 255
    /\ gf_a = gf.element_count
    /\ gf_res \in 2..255
    /\ mul(gf, gf_a, gf_res) = 1

\* C8: log(0), inverse(0), div(a, 0) and div(0, b) end in an error.
Cex_C8_ZeroFails ==
    (\/ gf_op \in {"log", "inverse"} /\ gf_a = 0
     \/ gf_op = "div" /\ (gf_a = 0 \/ gf_b = 0))
    => IsError(gf_res)

\* the digits 0-9 and the 45 symbols of the alphanumeric mode
Digits == 48..57
Alphabet45 == Digits \cup (65..90) \cup {32, 36, 37, 42, 43, 45, 46, 47, 58}
AllIn(s, set) == \A m \in 1..Len(s) : s[m] \in set

\* C9: select_encoding picks numeric for content of digits 0-9 only,
\* otherwise alphanumeric for content of the 45 symbols only, otherwise byte
\* for ISO-8859-1 content, and no mode for any other content (for the empty
\* content either of the first two modes is accepted).
Cex_C9_ModePriority ==
    seg_op = "select_encoding"
    => IF Len(seg_data) = 0 THEN seg_encoding \in {"numeric", "alphanumeric"}
       ELSE IF AllIn(seg_data, Digits) THEN seg_encoding = "numeric"
       ELSE IF AllIn(seg_data, Alphabet45) THEN seg_encoding = "alphanumeric"
       ELSE IF AllIn(seg_data, 0..255) THEN seg_encoding = "byte"
       ELSE seg_encoding \notin {"numeric", "alphanumeric", "byte", "kanji"}

\* the length field of version v: the tiers 1-9, 10-26 and 27-40
LengthField(v, mode) ==
    IF v \in 1..9 THEN length_bitlen_v10[mode]
    ELSE IF v \in 10..26 THEN length_bitlen_v27[mode]
    ELSE length_bitlen_v40[mode]

\* version v holds a payload of so many bits
Holds(v, ec_level, mode, bits) ==
    capacities[v][ec_level_index[ec_level] + 1] - 4 - LengthField(v, mode) >= bits

Fits(ec_level, mode, bits) == \E v \in 1..40 : Holds(v, ec_level, mode, bits)

\* how much longer the payloads are that a payload is compared with
Increments == {1, 8, 64, 512, 4096}

\* C10: for a payload that fits, version_info returns the smallest version
\* 1..40 that holds it and the length field of that version's tier; a longer
\* payload never selects a smaller version, and encoding_length does not
\* decrease when the content grows.
Thm_C10_MinimalVersion ==
    /\ (/\ seg_op = "version_info"
        /\ seg_encoding \in Encodings
        /\ Fits(seg_ec, seg_encoding, seg_bits))
       => /\ seg_info.err = 0
          /\ seg_info.version \in 1..40
          /\ Holds(seg_info.version, seg_ec, seg_encoding, seg_bits)
          /\ \A v \in 1..(seg_info.version - 1) :
                 ~Holds(v, seg_ec, seg_encoding, seg_bits)
          /\ seg_info.length_bitlen = LengthField(seg_info.version, seg_encoding)
          /\ \A d \in Increments :
                 Fits(seg_ec, seg_encoding, seg_bits + d)
                 => version_info(seg_bits + d, seg_ec, seg_encoding).version
                        >= seg_info.version
    /\ (seg_op = "encoding_length" /\ seg_encoding \in Encodings)
       => encoding_length(seg_encoding, seg_len + 1) >= seg_bits

\* the first version of the second tier, selected for a numeric payload
Wit_C10_SecondTier ==
    /\ seg_op = "version_info"
    /\ seg_encoding = "numeric"
    /\ seg_info.err = 0
    /\ seg_info.version = 10
    /\ seg_info.length_bitlen = 12
    /\ ~Holds(9, seg_ec, seg_encoding, seg_bits)

\* C11: a payload that version 40 cannot hold makes version_info end with
\* the data-too-long error (ValueError); the version search never steps past
\* version 40 (no IndexError) and every returned version is in 1..40.
Cex_C11_OverflowIsValueError ==
    (seg_op = "version_info" /\ seg_encoding \in Encodings)
    => /\ ~Holds(40, seg_ec, seg_encoding, seg_bits)
             => seg_info.err = ValueError
       /\ seg_info.err # IndexError
       /\ seg_info.err = 0 => seg_info.version \in 1..40

\* bit i (from 1) of a byte sequence, most significant bit of a byte first
BitAt(bytes, i) == (bytes[(i - 1) \div 8 + 1] \div Pow2(7 - ((i - 1) % 8))) % 2

\* the payload bits of n characters: numeric 10 per 3 digits, 7 for 2 and 4
\* for 1 left over; alphanumeric 11 per pair and 6 for 1 left over; byte 8
BitCost(mode, n) ==
    IF mode = "numeric"
    THEN 10 * (n \div 3) + (IF n % 3 = 2 THEN 7 ELSE IF n % 3 = 1 THEN 4 ELSE 0)
    ELSE IF mode = "alphanumeric" THEN 11 * (n \div 2) + 6 * (n % 2)
    ELSE 8 * n

\* the bits of mode indicator, length field and payload of what encode returned
UsedBits(out, data) ==
    4 + LengthField(out.version, out.encoding) + BitCost(out.encoding, Len(data))

\* the capacity in bits of the version of what encode returned
CapacityOf(out, ec_level) == capacities[out.version][ec_level_index[ec_level] + 1]

\* the bytes that hold header, payload, terminator and the zero bits up to
\* the byte boundary
DataBytes(out, data, ec_level) ==
    (UsedBits(out, data)
        + Min(4, CapacityOf(out, ec_level) - UsedBits(out, data)) + 7) \div 8

\* C12: for content that encode accepts, the result has exactly
\* capacity(version, ec_level)/8 bytes: header and payload, then zero bits
\* (a terminator of at most 4 bits, fewer when fewer remain, and the bits to
\* the byte boundary), then the pad bytes 0xEC, 0x11 alternating from 0xEC.
Cex_C12_ExactCapacity ==
    (seg_op = "encode" /\ seg_out.err = 0)
    => /\ Len(seg_out.encoded) = CapacityOf(seg_out, seg_ec) \div 8
       /\ \A i \in (UsedBits(seg_out, seg_data) + 1)
                      ..(8 * DataBytes(seg_out, seg_data, seg_ec)) :
              BitAt(seg_out.encoded, i) = 0
       /\ \A m \in (DataBytes(seg_out, seg_data, seg_ec) + 1)
                      ..Len(seg_out.encoded) :
              seg_out.encoded[m] =
                  IF (m - DataBytes(seg_out, seg_data, seg_ec)) % 2 = 1
                  THEN 236 ELSE 17

\* the bits of value in width bits, most significant first
Bits(value, width) == [i \in 1..width |-> (value \div Pow2(width - i)) % 2]

\* the value of a decimal digit, and of a symbol of the 45-symbol alphabet:
\* digits 0-9, letters 10-35, then space $ % * + - . / : as 36-44
DigitValue(c) == IF c \in Digits THEN c - 48 ELSE c % 16
SymbolValue(c) ==
    IF c \in Digits THEN c - 48
    ELSE IF c \in 65..90 THEN c - 65 + 10
    ELSE CHOOSE v \in 36..44 : <<32, 36, 37, 42, 43, 45, 46, 47, 58>>[v - 35] = c

\* the payload of numeric content: 3 digits in 10 bits, 2 in 7, 1 in 4
RECURSIVE NumericBits(_)
NumericBits(data) ==
    IF Len(data) = 0 THEN << >>
    ELSE IF Len(data) = 1 THEN Bits(DigitValue(data[1]), 4)
    ELSE IF Len(data) = 2
    THEN Bits(10 * DigitValue(data[1]) + DigitValue(data[2]), 7)
    ELSE Bits(100 * DigitValue(data[1]) + 10 * DigitValue(data[2])
                  + DigitValue(data[3]), 10)
         \o NumericBits(SubSeq(data, 4, Len(data)))

\* the payload of alphanumeric content: a pair in 11 bits, a single in 6
RECURSIVE AlphanumericBits(_)
AlphanumericBits(data) ==
    IF Len(data) = 0 THEN << >>
    ELSE IF Len(data) = 1 THEN Bits(SymbolValue(data[1]), 6)
    ELSE Bits(45 * SymbolValue(data[1]) + SymbolValue(data[2]), 11)
         \o AlphanumericBits(SubSeq(data, 3, Len(data)))

\* the payload of byte content: 8 bits each
RECURSIVE ByteBits(_)
ByteBits(data) ==
    IF Len(data) = 0 THEN << >>
    ELSE Bits(data[1], 8) \o ByteBits(Tail(data))

PayloadBits(mode, data) ==
    IF mode = "numeric" THEN NumericBits(data)
    ELSE IF mode = "alphanumeric" THEN AlphanumericBits(data)
    ELSE ByteBits(data)

ModeIndicator(mode) ==
    IF mode = "numeric" THEN 1 ELSE IF mode = "alphanumeric" THEN 2 ELSE 4

\* mode indicator, character count, payload
Layout(mode, version, data) ==
    Bits(ModeIndicator(mode), 4)
        \o Bits(Len(data), LengthField(version, mode))
        \o PayloadBits(mode, data)

HelloWorldCodewords == <<32, 91, 11, 120, 209, 114, 220, 77, 67, 64, 236, 17, 236>>

\* C13: the bytes encode returns start with the 4-bit mode indicator, the
\* character count in the length-field width of the selected version and the
\* payload at the mode's bit cost, which is encoding_length(mode, n) bits;
\* ASCII content is encoded, and "HELLO WORLD" at level Q gives version 1 and
\* the bytes 20 5B 0B 78 D1 72 DC 4D 43 40 EC 11 EC
Thm_C13_BitLayout ==
    seg_op = "encode"
    => /\ AllIn(seg_data, 0..127) => seg_out.err = 0
       /\ seg_out.err = 0
          => /\ seg_out.encoding \in {"numeric", "alphanumeric", "byte"}
             /\ Len(PayloadBits(seg_out.encoding, seg_data))
                    = encoding_length(seg_out.encoding, Len(seg_data))
             /\ LET layout == Layout(seg_out.encoding, seg_out.version, seg_data)
                IN  /\ Len(layout) <= 8 * Len(seg_out.encoded)
                    /\ \A i \in 1..Len(layout) :
                           BitAt(seg_out.encoded, i) = layout[i]
       /\ (seg_data = HelloWorld /\ seg_ec = "Q")
          => /\ seg_out.err = 0
             /\ seg_out.version = 1
             /\ seg_out.encoded = HelloWorldCodewords

\* "HELLO WORLD" was encoded at level Q in alphanumeric mode, 5 pairs and a
\* single character
Wit_C13_HelloWorld ==
    /\ seg_op = "encode"
    /\ seg_data = HelloWorld
    /\ seg_ec = "Q"
    /\ seg_out.err = 0
    /\ seg_out.encoding = "alphanumeric"
    /\ Len(seg_out.encoded) = 13

\* the character count encode wrote after the mode indicator
CountField(out) ==
    LET width == LengthField(out.version, out.encoding)
    IN  [i \in 1..width |-> BitAt(out.encoded, 4 + i)]

\* C14: encode_alnum_char fails with the alphabet error for every character
\* outside 0-9 A-Z space $ % * + - . / : and maps each of the 45 symbols to
\* its own value 0..44 (digits 0-9, letters 10-35, the 9 symbols 36-44);
\* content with a character outside the alphabet is never packed as
\* alphanumeric, and what encode returns for it counts every character
Thm_C14_AlphanumericBound ==
    /\ seg_op = "encode_alnum_char"
       => IF seg_char \in Alphabet45
          THEN /\ seg_value = SymbolValue(seg_char)
               /\ seg_value \in 0..44
               /\ \A c \in Alphabet45 \ {seg_char} :
                      encode_alnum_char(c) # seg_value
          ELSE seg_value = ValueError
    /\ (seg_op = "encode" /\ ~AllIn(seg_data, Alphabet45) /\ seg_out.err = 0)
       => /\ seg_out.encoding # "alphanumeric"
          /\ CountField(seg_out)
                 = Bits(Len(seg_data), LengthField(seg_out.version, seg_out.encoding))

\* encode_alnum_char was called with the lower-case letter a and failed
Wit_C14_LowerCaseRejected ==
    /\ seg_op = "encode_alnum_char"
    /\ seg_char = 97
    /\ seg_value = ValueError

\* the blocks of the groups, groups in order and blocks in order
BlocksOf(groups) ==
    [b \in 1..Len(groups_blocks(groups)) |-> groups_blocks(groups)[b]]

RECURSIVE SumLens(_)
SumLens(blks) ==
    IF Len(blks) = 0 THEN 0 ELSE Len(blks[1]) + SumLens(Tail(blks))

\* where column-major order puts symbol j of block b: after the first j - 1
\* symbols of every block and symbol j of the blks before b
ColumnMajor(blks, b, j) ==
    SumLens([c \in 1..Len(blks) |-> SubSeq(blks[c], 1, Min(j - 1, Len(blks[c])))])
        + Cardinality({c \in 1..(b - 1) : Len(blks[c]) >= j}) + 1

expected2 ==
    <<67, 246, 182, 70, 85, 246, 230, 247, 70, 66, 247, 118,
      134, 7, 119, 86, 87, 118, 50, 194, 38, 134, 7, 6, 85,
      242, 118, 151, 194, 7, 134, 50, 119, 38, 87, 16, 50,
      86, 38, 236, 6, 22, 82, 17, 18, 198, 6, 236, 6, 199,
      134, 17, 103, 146, 151, 236, 38, 6, 50, 17, 7, 236>>

\* C15: interleave_blocks returns the symbols column-major: symbol j of
\* block b stands after the first j - 1 symbols of every block and after
\* symbol j of the blocks before b; exhausted blocks are skipped, symbols of
\* value 0 are kept, the output has as many symbols as the blocks together,
\* and the groups of the unit test give its reference sequence
Thm_C15_ColumnMajor ==
    qr_op = "interleave_blocks"
    => /\ qr_stream.err = 0
       /\ Len(qr_stream.val) = SumLens(BlocksOf(qr_groups))
       /\ \A b \in 1..Len(BlocksOf(qr_groups)) :
              \A j \in 1..Len(BlocksOf(qr_groups)[b]) :
                  qr_stream.val[ColumnMajor(BlocksOf(qr_groups), b, j)]
                      = BlocksOf(qr_groups)[b][j]
       /\ qr_groups = <<group1, group2>> => qr_stream.val = expected2

\* blocks of 3, 1 and 2 symbols with zeros among them were interleaved
Wit_C15_UnequalBlocks ==
    /\ qr_op = "interleave_blocks"
    /\ qr_groups = << <<<<0, 255, 0>>, <<0>>>>, <<<<255, 0>>>> >>
    /\ qr_stream.val = <<0, 0, 255, 255, 0, 0>>

\* a module that carries data: neither function-black nor function-white
IsDataModule(matrix, r, c) == matrix[r][c] \notin {FORMAT_BLACK, FORMAT_WHITE}

\* the matrix with the data modules flipped where mask pattern index is 0
Masked(matrix, index) ==
    [r \in 1..Len(matrix) |->
        [c \in 1..Len(matrix) |->
            IF IsDataModule(matrix, r, c)
               /\ mask_functions(index, r - 1, c - 1) = 0
            THEN 1 - matrix[r][c]
            ELSE matrix[r][c]]]

\* the lowest index among the candidates of the lowest score
BestIndex(candidates) ==
    CHOOSE i \in 0..7 :
        /\ \A j \in 0..7 :
               candidates[i + 1].penalty_score <= candidates[j + 1].penalty_score
        /\ \A j \in 0..(i - 1) :
               candidates[j + 1].penalty_score > candidates[i + 1].penalty_score

\* where the first and the second copy of the format string keep bit b
FormatCopy1(b) ==
    IF b <= 5 THEN <<b, 8>>
    ELSE IF b = 6 THEN <<7, 8>>
    ELSE IF b = 7 THEN <<8, 8>>
    ELSE IF b = 8 THEN <<8, 7>>
    ELSE <<8, 14 - b>>
FormatCopy2(b, width) ==
    IF b <= 7 THEN <<8, width - 1 - b>>
    ELSE <<width - 15 + b, 8>>

\* the 15-bit number a copy of the format string shows, a function-black
\* module being 1
RECURSIVE FormatRead(_, _, _)
FormatRead(matrix, cells, b) ==
    IF b > 14 THEN 0
    ELSE (IF matrix[cells[b + 1][1] + 1][cells[b + 1][2] + 1] = FORMAT_BLACK
          THEN Pow2(b) ELSE 0)
         + FormatRead(matrix, cells, b + 1)
FormatRead1(matrix) == FormatRead(matrix, [b \in 1..15 |-> FormatCopy1(b - 1)], 0)
FormatRead2(matrix) ==
    FormatRead(matrix, [b \in 1..15 |-> FormatCopy2(b - 1, Len(matrix))], 0)

\* C16: optimal_mask scores the 8 masks, each on its own copy of the matrix
\* it found, installs the copy of the lowest score (the lowest index among
\* equals) and returns its index; mark_format_string then stamps a format
\* string that carries this index
Thm_C16_OptimalMask ==
    [][/\ qr_op' = "optimal_mask"
          => /\ Len(qr_candidates') = 8
             /\ \A i \in 0..7 :
                    /\ qr_candidates'[i + 1].matrix = Masked(qr.matrix, i)
                    /\ qr_candidates'[i + 1].penalty_score
                           = penalty(Masked(qr.matrix, i), qr.width)
             /\ qr'.mask_index = BestIndex(qr_candidates')
             /\ qr'.matrix = Masked(qr.matrix, qr'.mask_index)
       /\ qr_op' = "mark_format_string"
          => /\ qr'.mask_index = qr.mask_index
             /\ (Xor(FormatRead1(qr'.matrix), 21522) \div 1024) % 8
                    = qr.mask_index
             /\ \A r \in 1..qr.width, c \in 1..qr.width :
                    IsDataModule(qr.matrix, r, c)
                        => qr'.matrix[r][c] = qr.matrix[r][c]]_vars

\* optimal_mask installed mask 1 for HELLO WORLD, mask 0 scoring worse
Wit_C16_SecondMaskWins ==
    /\ qr_op = "optimal_mask"
    /\ qr_data = HelloWorld
    /\ qr.mask_index = 1
    /\ qr_candidates[1].penalty_score > qr_candidates[2].penalty_score
    /\ qr.matrix = qr_candidates[2].matrix

\* the centres of the alignment patterns of a version: every pair of the
\* coordinates of its row of the table, less the three pairs that fall on a
\* finder pattern
AlignmentCentres(version) ==
    IF version = 1 THEN {}
    ELSE LET coords == {alignments[version - 1][n] :
                            n \in 1..Len(alignments[version - 1])}
             far == CHOOSE a \in coords : \A b \in coords : b <= a
         IN  {ab \in coords \X coords :
                 ab \notin {<<6, 6>>, <<6, far>>, <<far, 6>>}}

\* module (r, c), counted from 0, of a symbol of the version belongs to a
\* finder pattern or its separator, a timing pattern, an alignment pattern,
\* the dark module, or the format or version information areas
FunctionModule(version, r, c) ==
    LET width == 17 + 4 * version
    IN  \/ (r <= 7 /\ c <= 7)
        \/ (r <= 7 /\ c >= width - 8)
        \/ (r >= width - 8 /\ c <= 7)
        \/ r = 6
        \/ c = 6
        \/ \E ab \in AlignmentCentres(version) :
               /\ r \in (ab[1] - 2)..(ab[1] + 2)
               /\ c \in (ab[2] - 2)..(ab[2] + 2)
        \/ (r = width - 8 /\ c = 8)
        \/ (r = 8 /\ (c <= 8 \/ c >= width - 8))
        \/ (c = 8 /\ (r <= 8 \/ r >= width - 7))
        \/ (version >= 7 /\ r <= 5 /\ c \in (width - 11)..(width - 9))
        \/ (version >= 7 /\ c <= 5 /\ r \in (width - 11)..(width - 9))

\* C17: when mark_bits starts, the modules that carry a function code are
\* the function modules of the version; mark_bits leaves every one of them
\* as it is, and so does each of the 8 maskings of optimal_mask (the 8
\* candidates and the matrix it installs)
Thm_C17_FunctionModulesKept ==
    [][/\ qr_op' = "mark_bits"
          => \A r \in 1..qr.width, c \in 1..qr.width :
                 /\ ~IsDataModule(qr.matrix, r, c)
                    <=> FunctionModule(qr.version, r - 1, c - 1)
                 /\ ~IsDataModule(qr.matrix, r, c)
                    => qr'.matrix[r][c] = qr.matrix[r][c]
                 /\ IsDataModule(qr.matrix, r, c)
                    => qr'.matrix[r][c] \in {DATA_BLACK, DATA_WHITE}
       /\ qr_op' = "optimal_mask"
          => \A r \in 1..qr.width, c \in 1..qr.width :
                 ~IsDataModule(qr.matrix, r, c)
                 => /\ qr'.matrix[r][c] = qr.matrix[r][c]
                    /\ \A i \in 1..8 :
                           qr_candidates'[i].matrix[r][c] = qr.matrix[r][c]]_vars

\* a version 7 symbol (alignment patterns and version areas) after
\* optimal_mask: the centre of an alignment pattern is function black, the
\* version areas are reserved, and two candidates differ in a data module
Wit_C17_VersionSeven ==
    /\ qr_op = "optimal_mask"
    /\ qr.version = 7
    /\ qr.matrix[23][23] = FORMAT_BLACK
    /\ qr.matrix[1][35] = FORMAT_WHITE
    /\ qr_candidates[1].matrix[10][10] # qr_candidates[2].matrix[10][10]
    /\ \A i \in 1..8 : qr_candidates[i].matrix[7][11] = qr.matrix[7][11]

\* the product of two polynomials over GF(2), bit i being the coefficient
\* of x^i
RECURSIVE ProductGF2(_, _)
ProductGF2(a, b) ==
    IF b = 0 THEN 0
    ELSE Xor(IF b % 2 = 1 THEN a ELSE 0, ProductGF2(2 * a, b \div 2))

\* v is generator times a polynomial of degree up to that of Pow2(bits) - 1
MultipleGF2(v, generator, bits) ==
    \E q \in 0..(Pow2(bits) - 1) : ProductGF2(generator, q) = v

\* the number whose binary digits, the highest first, are given
RECURSIVE Binary(_)
Binary(digits) ==
    IF digits = << >> THEN 0
    ELSE 2 * Binary(SubSeq(digits, 1, Len(digits) - 1)) + digits[Len(digits)]

FormatGenerator == Binary(<<1, 0, 1, 0, 0, 1, 1, 0, 1, 1, 1>>)
FormatMask == Binary(<<1, 0, 1, 0, 1, 0, 0, 0, 0, 0, 1, 0, 0, 1, 0>>)

\* the two bits of the error correction level in the format information
\* (L 01, M 00, Q 11, H 10)
ECLevelBits(ec_level) ==
    IF ec_level = "L" THEN 1
    ELSE IF ec_level = "M" THEN 0
    ELSE IF ec_level = "Q" THEN 3
    ELSE 2

\* the one 15-bit value of a level and a mask index: a multiple of the
\* generator under the XOR mask, with the level and the index on top
FormatValue(ec_level, mask_index) ==
    CHOOSE v \in {Xor(ProductGF2(FormatGenerator, q), FormatMask) : q \in 0..31} :
        Xor(v, FormatMask) \div 1024 = 8 * ECLevelBits(ec_level) + mask_index

\* every module of the two copies holds a function code
FormatCopiesResolved(matrix) ==
    \A b \in 0..14 :
        /\ matrix[FormatCopy1(b)[1] + 1][FormatCopy1(b)[2] + 1]
               \in {FORMAT_BLACK, FORMAT_WHITE}
        /\ matrix[FormatCopy2(b, Len(matrix))[1] + 1]
                 [FormatCopy2(b, Len(matrix))[2] + 1]
               \in {FORMAT_BLACK, FORMAT_WHITE}

\* C18: format_string(ec_level, mask) is a 15-bit value; XORed with
\* 0b101010000010010 it is a multiple of 0b10100110111 over GF(2) whose top
\* 5 bits are the level's 2 bits and the mask index; no other level and
\* mask index give the same value; mark_format_string leaves both copies of
\* the format area showing these 15 bits
Thm_C18_FormatString ==
    [][/\ qr_op' = "format_string"
          => /\ qr_value' \in 0..32767
             /\ MultipleGF2(Xor(qr_value', FormatMask), FormatGenerator, 5)
             /\ Xor(qr_value', FormatMask) \div 1024
                    = 8 * ECLevelBits(qr_level) + qr_mask
             /\ \A ec_level \in ECLevels, mask_index \in MaskIndices :
                    format_string(ec_level, mask_index) = qr_value'
                    => ec_level = qr_level /\ mask_index = qr_mask
       /\ qr_op' = "mark_format_string"
          => /\ FormatCopiesResolved(qr'.matrix)
             /\ FormatRead1(qr'.matrix) = FormatValue(qr.ec_level, qr.mask_index)
             /\ FormatRead2(qr'.matrix) = FormatValue(qr.ec_level, qr.mask_index)]_vars

\* the symbol of HELLO WORLD at level Q, mask 1, shows 0b011000001101000
\* in both copies
Wit_C18_LevelQMaskOne ==
    /\ qr_op = "mark_format_string"
    /\ qr.ec_level = "Q"
    /\ qr.mask_index = 1
    /\ FormatRead1(qr.matrix)
           = Binary(<<0, 1, 1, 0, 0, 0, 0, 0, 1, 1, 0, 1, 0, 0, 0>>)
    /\ FormatRead2(qr.matrix) = FormatRead1(qr.matrix)

VersionGenerator == Binary(<<1, 1, 1, 1, 1, 0, 0, 1, 0, 0, 1, 0, 1>>)

\* the one 18-bit value of a version: a multiple of the generator with the
\* version number in the top 6 bits
VersionValue(version) ==
    CHOOSE v \in {ProductGF2(VersionGenerator, q) : q \in 0..63} :
        v \div 4096 = version

\* bit b of the version information in the area right of the top left
\* finder's row (6 rows of 3) and in the area below it (3 rows of 6, the
\* transpose), as <<row, column>> from 0
VersionTopRight(b, width) == <<b \div 3, width - 11 + (b % 3)>>
VersionBottomLeft(b, width) == <<width - 11 + (b % 3), b \div 3>>

IsBlack(code) == code = DATA_BLACK \/ code = FORMAT_BLACK

\* the number an area shows, a black module being 1
RECURSIVE VersionRead(_, _, _)
VersionRead(matrix, cells, b) ==
    IF b > 17 THEN 0
    ELSE (IF IsBlack(matrix[cells[b + 1][1] + 1][cells[b + 1][2] + 1])
          THEN Pow2(b) ELSE 0)
         + VersionRead(matrix, cells, b + 1)
VersionReadTopRight(matrix) ==
    VersionRead(matrix, [b \in 1..18 |-> VersionTopRight(b - 1, Len(matrix))], 0)
VersionReadBottomLeft(matrix) ==
    VersionRead(matrix, [b \in 1..18 |-> VersionBottomLeft(b - 1, Len(matrix))], 0)

VersionAreas(width) ==
    {VersionTopRight(b, width) : b \in 0..17}
    \cup {VersionBottomLeft(b, width) : b \in 0..17}

\* C19: for versions 7 to 40 version_string(version) is an 18-bit multiple
\* of 0b1111100100101 over GF(2) with the version number in its top 6 bits;
\* mark_version_information shows these 18 bits in the top right area and,
\* transposed, in the bottom left area, changes no other module, and
\* changes nothing when the version is below 7
Thm_C19_VersionString ==
    [][/\ qr_op' = "version_string" /\ qr_version >= 7
          => /\ qr_value' \in 0..(Pow2(18) - 1)
             /\ qr_value' \div 4096 = qr_version
             /\ MultipleGF2(qr_value', VersionGenerator, 6)
       /\ qr_op' = "mark_version_information" /\ qr.version >= 7
          => /\ VersionReadTopRight(qr'.matrix) = VersionValue(qr.version)
             /\ VersionReadBottomLeft(qr'.matrix) = VersionValue(qr.version)
             /\ \A r \in 1..qr.width, c \in 1..qr.width :
                    <<r - 1, c - 1>> \notin VersionAreas(qr.width)
                    => qr'.matrix[r][c] = qr.matrix[r][c]
       /\ qr_op' = "mark_version_information" /\ qr.version < 7
          => qr'.matrix = qr.matrix]_vars

\* a version 7 symbol shows 0b000111110010010100 in both areas
Wit_C19_VersionSeven ==
    /\ qr_op = "mark_version_information"
    /\ qr.version = 7
    /\ VersionReadTopRight(qr.matrix)
           = Binary(<<0, 0, 0, 1, 1, 1, 1, 1, 0, 0, 1, 0, 0, 1, 0, 1, 0, 0>>)
    /\ VersionReadBottomLeft(qr.matrix) = VersionReadTopRight(qr.matrix)

\* C20: image_bits returns width + 8 rows of width + 8 values 0 or 1, width
\* being 17 + 4 * version; the 4 outer rows and columns on every side are 0,
\* and the value at row 4 + r, column 4 + c is 1 exactly when module (r, c)
\* of the matrix is data black or function black
Thm_C20_QuietMargin ==
    [][qr_op' = "image_bits"
       => LET size == 17 + 4 * qr.version + 8
          IN  /\ Len(qr.matrix) = 17 + 4 * qr.version
              /\ Len(qr_image') = size
              /\ \A r \in 1..size :
                     /\ Len(qr_image'[r]) = size
                     /\ \A c \in 1..size :
                            /\ qr_image'[r][c] \in {0, 1}
                            /\ IF r \in 5..(size - 4) /\ c \in 5..(size - 4)
                               THEN qr_image'[r][c] = 1
                                    <=> qr.matrix[r - 4][c - 4]
                                            \in {DATA_BLACK, FORMAT_BLACK}
                               ELSE qr_image'[r][c] = 0]_vars

\* the image of a version 1 symbol: 29 rows, the corner of the top left
\* finder pattern black behind a white margin, a white data module inside
Wit_C20_VersionOneImage ==
    /\ qr_op = "image_bits"
    /\ qr.version = 1
    /\ Len(qr_image) = 29
    /\ qr_image[4][5] = 0
    /\ qr_image[5][5] = 1
    /\ qr.matrix[1][1] = FORMAT_BLACK
    /\ \E r \in 1..21, c \in 1..21 :
           qr.matrix[r][c] = DATA_WHITE /\ qr_image[r + 4][c + 4] = 0
    /\ \E r \in 1..21, c \in 1..21 :
           qr.matrix[r][c] = DATA_BLACK /\ qr_image[r + 4][c + 4] = 1

\* C21: poly_mul(a, b) is the list poly_mul_standard(a, b) returns, of
\* len(a) + len(b) - 1 coefficients, for operands of every length.
Cex_C21_KaratsubaAgrees ==
    gf_op = "poly_mul"
    => /\ gf_res = poly_mul_standard(gf, gf_a, gf_b)
       /\ Len(gf_res) = Len(gf_a) + Len(gf_b) - 1

\* alpha^i, alpha being the element 2: i times doubled and reduced by the
\* primitive polynomial
RECURSIVE AlphaPower(_, _)
AlphaPower(field, i) ==
    IF i = 0 THEN 1
    ELSE modulo_gf2(2 * AlphaPower(field, i - 1), field.primitive_poly)

\* g is monic of the degree and vanishes at alpha^0 .. alpha^(degree - 1);
\* these being distinct elements, g is the product of the (x + alpha^i)
IsGeneratorOf(field, g, degree) ==
    /\ Len(g) = degree + 1
    /\ g[1] = 1
    /\ \A m \in 1..Len(g) : g[m] \in 0..field.element_count
    /\ \A i \in 0..(degree - 1) :
           poly_eval(field, g, AlphaPower(field, i)) = 0

\* C22: a constructed coder has k < n <= element_count and its generator is
\* monic of degree n - k with the roots alpha^0 .. alpha^(n-k-1);
\* compute_generator and compute_generator_slow end in the same result for
\* every degree, the generator of the degree when the degree is below the
\* number of elements; a construction that failed ended in ValueError
Thm_C22_Generator ==
    /\ rse # NoCoder
       => /\ rse.n <= rse.gf.element_count
          /\ rse.corrections_len = rse.n - rse.k
          /\ IsGeneratorOf(rse.gf, rse.generator, rse.n - rse.k)
    /\ rs_op = "new_failed" => rs_result.err = ValueError
    /\ rs_op = "compute_generator"
       => /\ rs_result = compute_generator_slow(rse.gf, rs_degree)
          /\ rs_degree < rse.gf.element_count
             => /\ rs_result.err = 0
                /\ IsGeneratorOf(rse.gf, rs_result.val, rs_degree)
    /\ rs_op = "compute_generator_slow"
       => /\ rs_result = compute_generator(rse.gf, rs_degree)
          /\ rs_degree < rse.gf.element_count
             => /\ rs_result.err = 0
                /\ IsGeneratorOf(rse.gf, rs_result.val, rs_degree)

\* the generator of degree 10 over GF(256), that of the QR code blocks with
\* 10 correction symbols, from compute_generator_slow
Wit_C22_DegreeTen ==
    /\ rs_op = "compute_generator_slow"
    /\ rse.gf.primitive_poly = 285
    /\ rs_degree = 10
    /\ rs_result.err = 0
    /\ rs_result.val = <<1, 216, 194, 159, 111, 199, 94, 95, 113, 157, 193>>

\* the rows and the columns of a matrix as lines of colours, TRUE for a
\* black module
LinesOf(matrix) ==
    [n \in 1..(2 * Len(matrix)) |->
        IF n <= Len(matrix)
        THEN [c \in 1..Len(matrix) |-> IsBlack(matrix[n][c])]
        ELSE [r \in 1..Len(matrix) |-> IsBlack(matrix[r][n - Len(matrix)])]]

\* the length of the maximal run of one colour that starts at position s of
\* the line, 0 when no run starts there
RunFrom(line, s) ==
    IF s > 1 /\ line[s - 1] = line[s] THEN 0
    ELSE Cardinality({e \in s..Len(line) : \A m \in s..e : line[m] = line[s]})

\* rule (a): run_length - 2 for every maximal run of 5 or more modules of
\* one colour in a row or a column
RECURSIVE Total(_)
Total(list) == IF list = << >> THEN 0 ELSE Head(list) + Total(Tail(list))
RunCost(line) ==
    Total([s \in 1..Len(line) |->
              IF RunFrom(line, s) >= 5 THEN RunFrom(line, s) - 2 ELSE 0])
RuleRuns(matrix) ==
    Total([n \in 1..(2 * Len(matrix)) |-> RunCost(LinesOf(matrix)[n])])

\* C23: condition one of penalty adds run_length - 2 for every maximal run
\* of 5 or more modules of one colour, in every row and every column, a run
\* of exactly 5 and a run at the end of a line included.
Cex_C23_RunPenalty ==
    qr_op = "penalty" => qr_value[1] = RuleRuns(qr.matrix)

\* line[from .. from + 3] exists and is all light
FourLight(line, from) ==
    /\ from >= 1
    /\ from + 3 <= Len(line)
    /\ \A m \in from..(from + 3) : ~line[m]

\* dark-light-dark-dark-dark-light-dark from position p of the line on
FinderAt(line, p) ==
    /\ p + 6 <= Len(line)
    /\ line[p] /\ ~line[p + 1] /\ line[p + 2] /\ line[p + 3] /\ line[p + 4]
    /\ ~line[p + 5] /\ line[p + 6]

\* rule (c): 40 for every such pattern with 4 light modules directly before
\* it or directly after it, in a row or a column
FinderCost(line) ==
    40 * Cardinality({p \in 1..Len(line) :
                         /\ FinderAt(line, p)
                         /\ FourLight(line, p - 4) \/ FourLight(line, p + 7)})
RuleFinders(matrix) ==
    Total([n \in 1..(2 * Len(matrix)) |-> FinderCost(LinesOf(matrix)[n])])

\* C24: condition three of penalty adds 40 for every pattern
\* dark-light-dark-dark-dark-light-dark with 4 light modules directly before
\* or directly after it, wherever pattern and flank fit, in rows and columns.
Cex_C24_FinderPenalty ==
    qr_op = "penalty" => qr_value[3] - qr_value[2] = RuleFinders(qr.matrix)

\* the number of black modules of a matrix
DarkCount(matrix) ==
    Total([r \in 1..Len(matrix) |->
              Cardinality({c \in 1..Len(matrix) : IsBlack(matrix[r][c])})])

Distance50(percent) == IF percent >= 50 THEN percent - 50 ELSE 50 - percent

\* rule (d): the dark share in percent lies between two multiples of 5; 10
\* for every step of 5 percent the nearer of the two is away from 50
RuleBalance(matrix) ==
    LET percent == (100 * DarkCount(matrix)) \div (Len(matrix) * Len(matrix))
        below == percent - (percent % 5)
    IN  10 * (Min(Distance50(below), Distance50(below + 5)) \div 5)

\* C25: condition four of penalty adds 10 for every 5 percent step between
\* the share of dark modules and 50 percent, and never a negative number.
Cex_C25_BalancePenalty ==
    qr_op = "penalty"
    => /\ qr_value[4] - qr_value[3] >= 0
       /\ qr_value[4] - qr_value[3] = RuleBalance(qr.matrix)

\* the right column of strip s (0 is the strip at the right edge) of a symbol:
\* strips are two columns wide and column 6 belongs to none
StripRight(width, s) ==
    IF width - 1 - 2 * s <= 6 THEN width - 2 - 2 * s ELSE width - 1 - 2 * s

\* the n-th module (x, y), n counted from 0, of the zig-zag path: strip after
\* strip from the right edge, the first strip from the bottom row upwards,
\* the next one downwards, alternating; in each row the right column first
PathModule(width, n) ==
    LET s == n \div (2 * width)
        k == n % (2 * width)
    IN  <<StripRight(width, s) - (k % 2),
          IF s % 2 = 0 THEN width - 1 - (k \div 2) ELSE k \div 2>>

\* the modules of the path that are no function modules, in path order
DataPath(version) ==
    LET width == 17 + 4 * version
    IN  SelectSeq([n \in 1..(width * (width - 1)) |-> PathModule(width, n - 1)],
                  LAMBDA xy : ~FunctionModule(version, xy[2], xy[1]))

\* data and correction codewords of a symbol, from the blocks table
TotalCodewords(version, level) ==
    LET entry == blocks[version][ec_level_index[level] + 1]
    IN  Total([g \in 1..((Len(entry) - 1) \div 2) |->
                  entry[2 * g] * (entry[2 * g + 1] + entry[1])])

\* C26: for every version, after pattern marking and reservation,
\* data_position_generator yields the non-function modules along the zig-zag
\* path of two-column strips (right edge first, upwards then downwards,
\* alternating, never column 6), each non-function module exactly once and
\* no function module; the number of modules yielded is at least the number
\* of interleaved data and correction bits of every EC level and exceeds it
\* by fewer than 8
Thm_C26_DataPath ==
    qr_op = "data_position_generator"
    => LET yielded == {qr_value[k] : k \in 1..Len(qr_value)}
       IN  /\ qr_value = DataPath(qr.version)
           /\ Cardinality(yielded) = Len(qr_value)
           /\ yielded = {xy \in (0..(qr.width - 1)) \X (0..(qr.width - 1)) :
                             ~FunctionModule(qr.version, xy[2], xy[1])}
           /\ \A xy \in yielded : xy[1] # 6
           /\ \A level \in ECLevels :
                  /\ Len(qr_value) >= 8 * TotalCodewords(qr.version, level)
                  /\ Len(qr_value) < 8 * TotalCodewords(qr.version, level) + 8

\* the path of a version 2 symbol: it starts in the bottom right corner and
\* has 7 modules more than the bits of the 44 codewords
Wit_C26_VersionTwoSpare ==
    /\ qr_op = "data_position_generator"
    /\ qr.version = 2
    /\ Head(qr_value) = <<qr.width - 1, qr.width - 1>>
    /\ Len(qr_value) = 8 * TotalCodewords(2, "L") + 7

\* the bits of the extend calls: each number in its width, most significant
\* bit first, in call order
RECURSIVE CallBits(_)
CallBits(calls) ==
    IF calls = << >> THEN << >>
    ELSE CallBits(SubSeq(calls, 1, Len(calls) - 1))
         \o Bits(calls[Len(calls)][1], calls[Len(calls)][2])

\* a bit string packed into bytes, most significant bit first, the last byte
\* filled up with zero bits
Packed(bitstring) ==
    [j \in 1..((Len(bitstring) + 7) \div 8) |->
        Total([k \in 1..8 |->
                  IF 8 * (j - 1) + k <= Len(bitstring)
                  THEN bitstring[8 * (j - 1) + k] * Pow2(8 - k) ELSE 0])]

\* C27: after any sequence of extend(number, w) calls with 0 <= number < 2^w
\* on a big-endian BitArray, len() is the sum of the widths, iterating
\* yields the w-bit most-significant-first representations of the numbers
\* concatenated in call order, to_bytes() is that bit string padded on the
\* right with zero bits to whole bytes, and the buffer holds fewer than 8 bits
Thm_C27_AppendSemantics ==
    /\ ba.err = 0
    /\ bits_len(ba) = Total([n \in 1..Len(ba_calls) |-> ba_calls[n][2]])
    /\ bitarray_iter(ba) = CallBits(ba_calls)
    /\ to_bytes(ba) = Packed(CallBits(ba_calls))
    /\ ba.buffer_len < 8
    /\ ba.buffer < Pow2(ba.buffer_len)

\* 4 bits, then 11 bits that fill the first byte and leave 7 in the buffer,
\* then 1 bit that completes the second byte
Wit_C27_BufferFlushed ==
    /\ ba_op = "extend"
    /\ ba_calls = <<<<Pow2(4) \div 3, 4>>, <<Pow2(11) - 1, 11>>, <<0, 1>>>>
    /\ ba.buffer_len = 0
    /\ Len(ba.byte_array) = 2

\* C30: for every index 0 <= i < len, b[i] is the i-th bit that iterating b
\* yields, the bits still held in the buffer included
Cex_C30_IndexIsIteration ==
    (ba_op = "getitem" /\ ba_index >= 0 /\ ba_index < bits_len(ba))
    => ba_value = bitarray_iter(ba)[ba_index + 1]

\* the standard mask patterns: pattern index changes module (row, col)
StandardMask(index, row, col) ==
    IF index = 0 THEN (row + col) % 2 = 0
    ELSE IF index = 1 THEN row % 2 = 0
    ELSE IF index = 2 THEN col % 3 = 0
    ELSE IF index = 3 THEN (row + col) % 3 = 0
    ELSE IF index = 4 THEN ((row \div 2) + (col \div 3)) % 2 = 0
    ELSE IF index = 5 THEN ((row * col) % 2) + ((row * col) % 3) = 0
    ELSE IF index = 6 THEN (((row * col) % 2) + ((row * col) % 3)) % 2 = 0
    ELSE (((row + col) % 2) + ((row * col) % 3)) % 2 = 0

\* C28: each of the 8 mask functions flips exactly the modules of the
\* standard mask pattern of its index: in the copy that mask(matrix_copy,
\* index) has masked, a data module (row, col) has changed colour exactly
\* when the standard pattern of the index holds at (row, col)
Cex_C28_StandardMasks ==
    [][qr_op' = "optimal_mask"
          => \A index \in MaskIndices :
             \A r \in 1..qr.width, c \in 1..qr.width :
                 IsDataModule(qr.matrix, r, c)
                     => ((qr_candidates'[index + 1].matrix[r][c] # qr.matrix[r][c])
                            <=> StandardMask(index, r - 1, c - 1))]_vars

\* the data codewords of a symbol: block_count * block_length summed over
\* the groups of the blocks table entry
DataCodewords(version, level) ==
    LET entry == blocks[version][ec_level_index[level] + 1]
    IN  Total([g \in 1..((Len(entry) - 1) \div 2) |->
                  entry[2 * g] * entry[2 * g + 1]])

\* C29: the two tables agree: every capacity that version_info has compared
\* the bit length with (the versions up to the one it returns, at the EC
\* level of the call) is 8 times the data codewords of the blocks table
\* entry of that version and level
Cex_C29_TablesAgree ==
    (seg_op = "version_info" /\ seg_info.err = 0)
    => \A version \in 1..seg_info.version :
           capacities[version][ec_level_index[seg_ec] + 1]
               = 8 * DataCodewords(version, seg_ec)

====
